---- MODULE Spec2Model ----
(***************************************************************************)
(* A model of the parasel execution engine: the shared Context             *)
(* (parasel/core/context.py), the leaf adapter (module_adapter.py), the    *)
(* Serial / Parallel composition nodes (node.py) and the Executor          *)
(* (executor.py).                                                          *)
(*                                                                         *)
(* Python values are modelled as tagged records.  Lists are objects on a   *)
(* heap, because the code mutates them in place (list.append) and keeps    *)
(* references to them in local variables (old_value, current).             *)
(***************************************************************************)
EXTENDS Integers, Sequences, FiniteSets, TLC

VARIABLES
    data,        \* Context._data: key -> value, Absent when the key is missing
    heap,        \* the list objects: heap[i] is the content of list object i
    written,     \* Context._written_keys
    accessed,    \* Context._accessed_keys
    threadSafe,  \* Context._thread_safe
    lockOwner,   \* Context._lock: 0 when free, else the thread holding it
    th,          \* the threads calling Context.accumulate / Context.set directly
    order,       \* history: the threads in the order they took the lock
    last,        \* history: the last sequential accumulate call and its pre-state,
                 \* or the Context a leaf run alone started from
    tree,        \* the step tree handed to the Executor: node id -> node
    mode,        \* "sync" (Executor.run) or "async" (Executor.run_async)
    policy,      \* the ExecutionPolicy
    ns,          \* ns[g][n]: the state of node n in the g-th invocation of the root
    ex,          \* the Executor's own state and the ExecutionResult
    tasks,       \* TaskRegistry._tasks: task_id -> the TaskSpecs in dict order
    stable_versions,  \* TaskRegistry._stable_versions: task_id -> version
    marked,      \* history: task_id -> the version last marked stable, if registered
    reply        \* what the last call of the TaskRegistry returned or raised

ctxVars == <<data, heap, written, accessed, threadSafe, lockOwner>>
thVars == <<th, order, last>>
engVars == <<tree, mode, policy, ns, ex>>
regVars == <<tasks, stable_versions, marked, reply>>
vars == <<data, heap, written, accessed, threadSafe, lockOwner, th, order, last,
          tree, mode, policy, ns, ex, tasks, stable_versions, marked, reply>>

-----------------------------------------------------------------------------
(* Bounds *)

NumThreads == 3      \* threads of the Context scenario
MaxScalar == 2       \* scalars 1..MaxScalar stored in the Context
MaxCalls == 2        \* sequential accumulate calls of the accumulate scenario

-----------------------------------------------------------------------------
(* Python values *)

Absent == [t |-> "absent", v |-> 0]   \* no entry in the dict
Nil == [t |-> "nil", v |-> 0]         \* None
S(n) == [t |-> "s", v |-> n]          \* a non-list value (int, str, dict, ...)
R(i) == [t |-> "ref", v |-> i]        \* a reference to list object i
Txt(c) == [t |-> "str", v |-> c]      \* the str whose text is c

IsList(x) == x.t = "ref"

CtxKeys == {"k1", "k2"}

\* dict.get(key): None when the key is missing
DataGet(d, k) == IF d[k] = Absent THEN Nil ELSE d[k]

\* key in dict
DataContains(d, k) == d[k] # Absent

\* The value a reference denotes, as a nested structure (for stating properties
\* and for Python's == on lists, which compares contents).
RECURSIVE Norm(_, _)
Norm(x, h) ==
    IF x.t = "ref"
    THEN [t |-> "l", v |-> [i \in 1..Len(h[x.v]) |-> Norm(h[x.v][i], h)]]
    ELSE x

L(s) == [t |-> "l", v |-> s]

\* Python's a != b
PyNotEqual(a, b, h) == Norm(a, h) # Norm(b, h)

-----------------------------------------------------------------------------
(* Context._accumulate_impl, context.py 133-142 *)

\* the result of the branch taken on `current` (lines 136-141): the new dict
\* and the new heap
AccWrite(d, h, k, value, current) ==
    IF current = Nil
    THEN [d |-> [d EXCEPT ![k] = R(Len(h) + 1)], h |-> Append(h, <<value>>)]
    ELSE IF IsList(current)
    THEN [d |-> d, h |-> [h EXCEPT ![current.v] = Append(@, value)]]
    ELSE [d |-> [d EXCEPT ![k] = R(Len(h) + 1)], h |-> Append(h, <<current, value>>)]

AccumulateImpl(d, h, k, value) == AccWrite(d, h, k, value, DataGet(d, k))

-----------------------------------------------------------------------------
(* Threads calling Context.accumulate (117-131) and Context.set (37-45)    *)

Threads == 1..NumThreads

\* a lock that never blocks
LockFreeNoGuard(t) == TRUE

\* `with self._lock:` is entered only when the lock is free (the threads of
\* this scenario never re-enter)
LockFree(t) == lockOwner = 0

\* enter the operation: take the lock when the Context is thread safe
Enter(t) ==
    /\ th[t].pc = "start"
    /\ IF threadSafe
       THEN LockFree(t) /\ lockOwner' = t
       ELSE UNCHANGED lockOwner
    /\ th' = [th EXCEPT ![t].pc = IF th[t].op = "accumulate" THEN "read" ELSE "write"]
    /\ order' = IF threadSafe THEN Append(order, t) ELSE order
    /\ UNCHANGED <<data, heap, written, accessed, threadSafe, last, engVars, regVars>>

\* current = self._data.get(key)
AccRead(t) ==
    /\ th[t].pc = "read"
    /\ th' = [th EXCEPT ![t].pc = "write", ![t].cur = DataGet(data, th[t].key)]
    /\ UNCHANGED <<ctxVars, order, last, engVars, regVars>>

\* the three branches of _accumulate_impl, or self._data[key] = value of set
Write(t) ==
    /\ th[t].pc = "write"
    /\ IF th[t].op = "accumulate"
       THEN LET r == AccWrite(data, heap, th[t].key, th[t].val, th[t].cur)
            IN  data' = r.d /\ heap' = r.h
       ELSE data' = [data EXCEPT ![th[t].key] = th[t].val] /\ UNCHANGED heap
    /\ th' = [th EXCEPT ![t].pc = "mark"]
    /\ UNCHANGED <<written, accessed, threadSafe, lockOwner, order, last, engVars, regVars>>

\* self._written_keys.add(key)
Mark(t) ==
    /\ th[t].pc = "mark"
    /\ written' = written \cup {th[t].key}
    /\ th' = [th EXCEPT ![t].pc = "exit"]
    /\ UNCHANGED <<data, heap, accessed, threadSafe, lockOwner, order, last, engVars, regVars>>

\* leave the `with` block
Exit(t) ==
    /\ th[t].pc = "exit"
    /\ lockOwner' = IF threadSafe THEN 0 ELSE lockOwner
    /\ th' = [th EXCEPT ![t].pc = "done"]
    /\ UNCHANGED <<data, heap, written, accessed, threadSafe, order, last, engVars, regVars>>

NoLast == [key |-> "k1", val |-> Nil, before |-> Absent, others |-> <<>>]

\* no TaskRegistry is involved
NoRegistry ==
    /\ tasks = <<>>
    /\ stable_versions = <<>>
    /\ marked = <<>>
    /\ reply = [op |-> "none"]

\* no Executor is involved
NoEngine ==
    /\ tree = <<>>
    /\ mode = "sync"
    /\ policy = [error_mode |-> "fail_fast", retry_on |-> {"Exception"}]
    /\ ns = <<>>
    /\ ex = [pc |-> "none"]

\* Context(initial_data=None, thread_safe=...) and one call per thread;
\* thread t passes the value t
InitCtx ==
    /\ data = [k \in CtxKeys |-> Absent]
    /\ heap = <<>>
    /\ written = {}
    /\ accessed = {}
    /\ threadSafe \in BOOLEAN
    /\ lockOwner = 0
    /\ \E ops \in [Threads -> {"accumulate", "set"}], keys \in [Threads -> CtxKeys] :
           th = [t \in Threads |-> [op |-> ops[t], key |-> keys[t], val |-> S(t),
                                    pc |-> "start", cur |-> Nil]]
    /\ order = <<>>
    /\ last = NoLast
    /\ NoEngine
    /\ NoRegistry

NextCtx ==
    \E t \in Threads : Enter(t) \/ AccRead(t) \/ Write(t) \/ Mark(t) \/ Exit(t)

SpecCtx == InitCtx /\ [][NextCtx]_vars

-----------------------------------------------------------------------------
(* Sequential calls of Context.accumulate on a Context in any state        *)

\* the list contents the initial Context may hold under a key
InitLists == {<<>>, <<S(1)>>, <<Nil>>, <<S(1), S(2)>>}

\* the i-th key owns list object i
KeyIndex(k) == IF k = "k1" THEN 1 ELSE 2

InitAccum ==
    /\ \E kinds \in [CtxKeys -> {Absent, Nil} \cup {S(n) : n \in 1..MaxScalar} \cup {R(0)}],
          lists \in [CtxKeys -> InitLists] :
          /\ data = [k \in CtxKeys |->
                        IF IsList(kinds[k]) THEN R(KeyIndex(k)) ELSE kinds[k]]
          /\ heap = <<IF IsList(kinds["k1"]) THEN lists["k1"] ELSE <<>>,
                      IF IsList(kinds["k2"]) THEN lists["k2"] ELSE <<>> >>
    /\ written = {}
    /\ accessed = {}
    /\ threadSafe \in BOOLEAN
    /\ lockOwner = 0
    /\ th = [t \in Threads |-> [op |-> "set", key |-> "k1", val |-> Nil,
                                pc |-> "done", cur |-> Nil]]
    /\ order = <<>>
    /\ last = NoLast
    /\ NoEngine
    /\ NoRegistry

\* Context.accumulate(key, value) run by one thread, from entry to return
AccumulateCall(k, value) ==
    /\ Len(order) < MaxCalls
    /\ LET r == AccumulateImpl(data, heap, k, value)
       IN  data' = r.d /\ heap' = r.h
    /\ written' = written \cup {k}
    /\ order' = Append(order, 1)
    /\ last' = [key |-> k, val |-> value, before |-> Norm(data[k], heap),
                others |-> [o \in CtxKeys \ {k} |-> Norm(data[o], heap)]]
    /\ UNCHANGED <<accessed, threadSafe, lockOwner, th, engVars, regVars>>

NextAccum ==
    \E k \in CtxKeys, value \in {Nil} \cup {S(n) : n \in 1..MaxScalar} :
        AccumulateCall(k, value)

SpecAccum == InitAccum /\ [][NextAccum]_vars

-----------------------------------------------------------------------------
(* Properties of the Context *)

\* accumulate as the documentation states it: a missing key gets [value], a
\* list gets value appended, any other value s becomes [s, value]
DocAccumulate(cur, value) ==
    IF cur = Absent THEN L(<<value>>)
    ELSE IF cur.t = "l" THEN L(Append(cur.v, value))
    ELSE L(<<cur, value>>)

\* the value of key k after the first i operations of `order`, run one after
\* the other
RECURSIVE Replay(_, _)
Replay(k, i) ==
    IF i = 0 THEN Absent
    ELSE LET t == order[i]
             prev == Replay(k, i - 1)
         IN  IF th[t].key # k THEN prev
             ELSE IF th[t].op = "set" THEN th[t].val
             ELSE DocAccumulate(prev, th[t].val)

AllThreadsDone == \A t \in Threads : th[t].pc = "done"

AccumulatorsOf(k) == {t \in Threads : th[t].key = k /\ th[t].op = "accumulate"}

\* C2: on a thread-safe Context concurrent accumulate and set calls are atomic:
\* when all calls have returned every key holds what the calls, run one at a
\* time in the order they took the lock, produce; in particular N threads that
\* each accumulate once on an absent key leave a list of exactly N elements, a
\* permutation of their values.
C2_AccumulateAtomic ==
    (threadSafe /\ AllThreadsDone) =>
        \A k \in CtxKeys :
            /\ Norm(data[k], heap) = Replay(k, Len(order))
            /\ (\A t \in Threads : th[t].key = k /\ th[t].op = "accumulate") =>
                   /\ IsList(data[k])
                   /\ Len(heap[data[k].v]) = NumThreads
                   /\ \A t \in Threads :
                          Cardinality({i \in 1..Len(heap[data[k].v]) :
                                         heap[data[k].v][i] = S(t)}) = 1

\* all threads accumulated on k1 and the last thread's value came first
C2_Witness ==
    /\ threadSafe /\ AllThreadsDone
    /\ AccumulatorsOf("k1") = Threads
    /\ IsList(data["k1"])
    /\ Len(heap[data["k1"].v]) = NumThreads
    /\ heap[data["k1"].v][1] = S(NumThreads)

\* C3: accumulate(key, value) turns an absent key into [value], a list L into
\* L + [value] and any non-list value s (None included) into [s, value], and
\* changes no other key.
C3_AccumulateCases ==
    Len(order) > 0 =>
        /\ Norm(data[last.key], heap) = DocAccumulate(last.before, last.val)
        /\ \A o \in CtxKeys \ {last.key} : Norm(data[o], heap) = last.others[o]

-----------------------------------------------------------------------------
(* The step tree: node.py and module_adapter.py                            *)

EngKeys == {"a", "b", "c"}

\* An exception is the chain of its causes, outermost first.  A frame of
\* type "ExecutionError" carries node_name; `count` is the number of errors
\* an aggregate error reports in its message (it has no cause).
NoExc == <<>>
UserExc(type) == <<[type |-> type, node_name |-> "", count |-> 0]>>

\* ExecutionError(message, node_name=name, cause=e)
ExecutionError(name, e) ==
    <<[type |-> "ExecutionError", node_name |-> name, count |-> 0]>> \o e

\* ExecutionError("... completed with n error(s)", node_name=name)
AggregateError(name, n) ==
    <<[type |-> "ExecutionError", node_name |-> name, count |-> n]>>

\* isinstance(e, T) for the exception classes of the model
IsInstance(e, T) == T \in {"Exception", e[1].type}

\* what a wrapped user function does when called: it may write wval to wkey
\* (wkey = "" for no write), then raises the exception `raises` (when not "")
\* or returns ret (Nil for None).  A function with times = k > 0 only raises
\* the first k times its step is invoked and returns ret afterwards.
Func(wkey, wval, ret, raises) ==
    [wkey |-> wkey, wval |-> wval, ret |-> ret, raises |-> raises, times |-> 0]
FailsFirst(k, f) == [f EXCEPT !.times = k]
\* the value of the keyword argument p the function is called with
Arg(p) == [t |-> "arg", v |-> p]
Returns(v) == Func("", Nil, v, "")
WritesTo(k, v) == Func(k, v, Nil, "")
Raises(type) == Func("", Nil, Nil, type)
NoFunc == Func("", Nil, Nil, "")

\* ModuleAdapter(func, out_name=out, name=name); out = "" for out_name=None
ModuleAdapter(name, out, func) ==
    [kind |-> "leaf", name |-> name, children |-> <<>>, continue_on_error |-> FALSE,
     fail_fast |-> TRUE, max_workers |-> 0, retries |-> 0,
     out_name |-> out, accumulate_result |-> FALSE, func |-> func,
     func_kwargs |-> <<>>]

\* Serial(children, name=name, continue_on_error=coe)
Serial(name, children, coe) ==
    [kind |-> "serial", name |-> name, children |-> children, continue_on_error |-> coe,
     fail_fast |-> TRUE, max_workers |-> 0, retries |-> 0,
     out_name |-> "", accumulate_result |-> FALSE, func |-> NoFunc,
     func_kwargs |-> <<>>]

\* Parallel(children, name=name, max_workers=mw, fail_fast=ff); node.py 185:
\* max_workers or len(children) when there are children, else 1
Parallel(name, children, mw, ff) ==
    [kind |-> "parallel", name |-> name, children |-> children, continue_on_error |-> FALSE,
     fail_fast |-> ff,
     max_workers |-> IF children # <<>> THEN (IF mw # 0 THEN mw ELSE Len(children)) ELSE 1,
     retries |-> 0,
     out_name |-> "", accumulate_result |-> FALSE, func |-> NoFunc,
     func_kwargs |-> <<>>]

Nodes == DOMAIN tree
Root == 1

Range(f) == {f[x] : x \in DOMAIN f}

Parent(n) ==
    IF \E p \in Nodes : n \in Range(tree[p].children)
    THEN CHOOSE p \in Nodes : n \in Range(tree[p].children)
    ELSE 0

-----------------------------------------------------------------------------
(* The state of one node in one invocation of the root                     *)

Idle == [st |-> "idle", pc |-> "", i |-> 0, errs |-> <<>>, err |-> NoExc,
         old |-> Nil, new |-> Nil, res |-> Nil, val |-> Nil,
         finq |-> <<>>, snap |-> {}, seen |-> {}, first |-> NoExc]

Finished(x) == x.st \in {"ok", "failed", "cancelled"}

\* node n of invocation g starts to run: the first statement of its run
StartNode(nsv, g, n) ==
    [nsv EXCEPT ![g][n] =
        [Idle EXCEPT
            !.st = "running",
            !.i = 1,
            !.pc = IF tree[n].kind = "leaf"
                   THEN (IF tree[n].accumulate_result /\ tree[n].out_name # ""
                         THEN "old" ELSE "call")
                   ELSE IF tree[n].kind = "parallel"
                   THEN (IF mode = "sync" THEN "submit" ELSE "gather")
                   ELSE IF tree[n].kind = "bykeys" THEN "collect"
                   ELSE "loop"]]

\* node n returns (status "ok") or raises err (status "failed"); a Parallel
\* parent sees its children complete in this order (as_completed, gather)
Finish(nsv, g, n, status, err) ==
    LET a == [nsv EXCEPT ![g][n].st = status, ![g][n].err = err, ![g][n].pc = "end"]
        p == Parent(n)
    IN  IF p # 0 /\ tree[p].kind = "parallel"
        THEN [a EXCEPT ![g][p].finq = Append(@, n)]
        ELSE a

Gens == DOMAIN ns

IsRunning(g, n, kind, pc) ==
    /\ g \in Gens /\ n \in Nodes
    /\ tree[n].kind = kind
    /\ ns[g][n].st = "running"
    /\ ns[g][n].pc = pc

-----------------------------------------------------------------------------
(* ModuleAdapter._run_sync_impl, module_adapter.py 77-137.  Every Context  *)
(* operation is one step; the leaves of a Parallel interleave step by step *)

\* 95-97: old_value = context.get(self.out_name)
LeafOld(g, n) ==
    /\ IsRunning(g, n, "leaf", "old")
    /\ ns' = [ns EXCEPT ![g][n].old = DataGet(data, tree[n].out_name),
                        ![g][n].pc = "call"]
    /\ accessed' = accessed \cup {tree[n].out_name}
    /\ UNCHANGED <<data, heap, written, threadSafe, lockOwner, thVars, regVars,
                   tree, mode, policy, ex>>

\* a leaf that drops what its function returns
AfterCallNoStore(n, result) ==
    IF tree[n].accumulate_result /\ tree[n].out_name # "" THEN "new" ELSE "end"

\* a leaf that stores None as well
AfterCallStoresNone(n, result) ==
    IF tree[n].accumulate_result /\ tree[n].out_name # "" THEN "new"
    ELSE IF tree[n].out_name # "" THEN "store"
    ELSE "end"

\* where the leaf goes after the function has returned `result` (103, 129)
AfterCall(n, result) ==
    IF tree[n].accumulate_result /\ tree[n].out_name # "" THEN "new"
    ELSE IF result # Nil /\ tree[n].out_name # "" THEN "store"
    ELSE "end"

\* what a function computes from the Context: context.get(k, 0) + c,
\* context.get(k, 0) * c and context.get(k1, 0) + context.get(k2, 0)
Plus(k, c) == [t |-> "plus", v |-> <<k, c>>]
Times(k, c) == [t |-> "times", v |-> <<k, c>>]
Sum(k1, k2) == [t |-> "sum", v |-> <<k1, k2>>]

\* context.get(k, 0) of an int
GetOrZero(d, k) == IF d[k] = Absent THEN 0 ELSE d[k].v

\* the keys the function reads with context.get to compute x
Reads(x) ==
    IF x.t \in {"plus", "times"} THEN {x.v[1]}
    ELSE IF x.t = "sum" THEN {x.v[1], x.v[2]}
    ELSE {}

\* 92: call_kwargs.update(self.func_kwargs): what the function writes or
\* returns may be one of its keyword arguments, or computed from the Context
ArgValue(n, x) ==
    IF x.t = "arg" THEN tree[n].func_kwargs[x.v]
    ELSE IF x.t = "plus" THEN S(GetOrZero(data, x.v[1]) + x.v[2])
    ELSE IF x.t = "times" THEN S(GetOrZero(data, x.v[1]) * x.v[2])
    ELSE IF x.t = "sum" THEN S(GetOrZero(data, x.v[1]) + GetOrZero(data, x.v[2]))
    ELSE x

\* the number of invocations of leaf n before the one of attempt g
Invocations(g, n) ==
    Cardinality({h \in Gens : h < g /\ ns[h][n].st \in {"running", "ok", "failed"}})

\* the function of leaf n raises when called in attempt g
RaisesNow(g, n) ==
    /\ tree[n].func.raises # ""
    /\ tree[n].func.times > 0 => Invocations(g, n) < tree[n].func.times

\* a leaf that lets the exception of its function through
LeafErrorBare(n, e) == e

\* 132-137: except Exception as e: raise ExecutionError(..., node_name=
\* self.name, cause=e)
LeafError(n, e) == ExecutionError(tree[n].name, e)

\* 100: result = self.func(**call_kwargs); 132-137: an exception is wrapped
LeafCall(g, n) ==
    /\ IsRunning(g, n, "leaf", "call")
    /\ LET f == tree[n].func
           result == ArgValue(n, f.ret)
           next == AfterCall(n, result)
           a == [ns EXCEPT ![g][n].res = result, ![g][n].val = result,
                           ![g][n].pc = next]
       IN  /\ IF f.wkey # ""
              THEN /\ data' = [data EXCEPT ![f.wkey] = ArgValue(n, f.wval)]
                   /\ written' = written \cup {f.wkey}
              ELSE UNCHANGED <<data, written>>
           /\ ns' = IF RaisesNow(g, n)
                    THEN Finish(ns, g, n, "failed", LeafError(n, UserExc(f.raises)))
                    ELSE IF next = "end" THEN Finish(a, g, n, "ok", NoExc)
                    ELSE a
           /\ accessed' = accessed \cup Reads(f.wval) \cup Reads(f.ret)
    /\ UNCHANGED <<heap, threadSafe, lockOwner, thVars, regVars, tree, mode, policy, ex>>

\* 105: new_value = context.get(self.out_name)
LeafNew(g, n) ==
    /\ IsRunning(g, n, "leaf", "new")
    /\ ns' = [ns EXCEPT ![g][n].new = DataGet(data, tree[n].out_name),
                        ![g][n].pc = "cmp"]
    /\ accessed' = accessed \cup {tree[n].out_name}
    /\ UNCHANGED <<data, heap, written, threadSafe, lockOwner, thVars, regVars,
                   tree, mode, policy, ex>>

\* 108 / 120: if new_value != old_value ... elif result is not None
LeafCmp(g, n) ==
    /\ IsRunning(g, n, "leaf", "cmp")
    /\ ns' = IF PyNotEqual(ns[g][n].new, ns[g][n].old, heap)
             THEN [ns EXCEPT ![g][n].pc = "build_written"]
             ELSE IF ns[g][n].res # Nil
             THEN [ns EXCEPT ![g][n].pc = "build_returned"]
             ELSE Finish(ns, g, n, "ok", NoExc)
    /\ UNCHANGED <<ctxVars, thVars, regVars, tree, mode, policy, ex>>

\* a promotion that forgets the old value
PromoteAlone(h, old, v, inplace) == [h |-> Append(h, <<v>>), val |-> R(Len(h) + 1)]

\* the list the leaf is about to store, for a value v promoted onto old:
\* a fresh list unless `inplace` (old_value.append, line 124)
Promote(h, old, v, inplace) ==
    IF old = Nil
    THEN [h |-> Append(h, <<v>>), val |-> R(Len(h) + 1)]
    ELSE IF IsList(old)
    THEN IF inplace
         THEN [h |-> [h EXCEPT ![old.v] = Append(@, v)], val |-> old]
         ELSE [h |-> Append(h, Append(h[old.v], v)), val |-> R(Len(h) + 1)]
    ELSE [h |-> Append(h, <<old, v>>), val |-> R(Len(h) + 1)]

\* 110-118: [new_value], old_value + [new_value] or [old_value, new_value];
\* 121-127: [result], old_value.append(result) or [old_value, result]
LeafBuild(g, n) ==
    /\ g \in Gens /\ n \in Nodes
    /\ tree[n].kind = "leaf"
    /\ ns[g][n].st = "running"
    /\ ns[g][n].pc \in {"build_written", "build_returned"}
    /\ LET r == IF ns[g][n].pc = "build_written"
                THEN Promote(heap, ns[g][n].old, ns[g][n].new, FALSE)
                ELSE Promote(heap, ns[g][n].old, ns[g][n].res, TRUE)
       IN  /\ heap' = r.h
           /\ ns' = [ns EXCEPT ![g][n].val = r.val, ![g][n].pc = "store"]
    /\ UNCHANGED <<data, written, accessed, threadSafe, lockOwner, thVars, regVars,
                   tree, mode, policy, ex>>

\* context[self.out_name] = ... (112-127, 130)
LeafStore(g, n) ==
    /\ IsRunning(g, n, "leaf", "store")
    /\ data' = [data EXCEPT ![tree[n].out_name] = ns[g][n].val]
    /\ written' = written \cup {tree[n].out_name}
    /\ ns' = Finish(ns, g, n, "ok", NoExc)
    /\ UNCHANGED <<heap, accessed, threadSafe, lockOwner, thVars, regVars,
                   tree, mode, policy, ex>>

Leaf(g, n) ==
    LeafOld(g, n) \/ LeafCall(g, n) \/ LeafNew(g, n) \/ LeafCmp(g, n)
        \/ LeafBuild(g, n) \/ LeafStore(g, n)

-----------------------------------------------------------------------------
(* Serial.run / Serial.run_async, node.py 97-145                           *)

engFrame == <<ctxVars, thVars, regVars, tree, mode, policy, ex>>

\* a loop that starts any child that has not run yet
SerialStartAnyChild(g, s) ==
    /\ IsRunning(g, s, "serial", "loop")
    /\ \E j \in 1..Len(tree[s].children) :
          /\ ns[g][tree[s].children[j]].st = "idle"
          /\ ns' = StartNode(ns, g, tree[s].children[j])
    /\ UNCHANGED engFrame

\* 103 / 128: child.run(context), the children one after the other
SerialStart(g, s) ==
    /\ IsRunning(g, s, "serial", "loop")
    /\ ns[g][s].i <= Len(tree[s].children)
    /\ ns[g][tree[s].children[ns[g][s].i]].st = "idle"
    /\ ns' = StartNode(ns, g, tree[s].children[ns[g][s].i])
    /\ UNCHANGED engFrame

\* a loop that never ends early
SerialNeverAborts(s) == FALSE

\* 111-114: a failed child ends the loop unless continue_on_error
SerialAborts(s) == ~tree[s].continue_on_error

\* 102-114: the child returned, or raised e and the error is built
SerialChildDone(g, s) ==
    /\ IsRunning(g, s, "serial", "loop")
    /\ ns[g][s].i <= Len(tree[s].children)
    /\ LET c == tree[s].children[ns[g][s].i]
           error == ExecutionError(tree[c].name, ns[g][c].err)
       IN  /\ Finished(ns[g][c])
           /\ ns' = IF ns[g][c].st = "ok"
                    THEN [ns EXCEPT ![g][s].i = @ + 1]
                    ELSE IF SerialAborts(s)
                    THEN Finish(ns, g, s, "failed", error)
                    ELSE [ns EXCEPT ![g][s].i = @ + 1,
                                    ![g][s].errs = Append(@, error)]
    /\ UNCHANGED engFrame

\* 116 / 141: if errors and not self.continue_on_error
SerialRaisesAtEnd(g, s) == ns[g][s].errs # <<>> /\ ~tree[s].continue_on_error

\* 116-120: after the loop
SerialEnd(g, s) ==
    /\ IsRunning(g, s, "serial", "loop")
    /\ ns[g][s].i > Len(tree[s].children)
    /\ ns' = IF SerialRaisesAtEnd(g, s)
             THEN Finish(ns, g, s, "failed",
                         AggregateError(tree[s].name, Len(ns[g][s].errs)))
             ELSE Finish(ns, g, s, "ok", NoExc)
    /\ UNCHANGED engFrame

-----------------------------------------------------------------------------
(* Parallel.run, node.py 188-235: a ThreadPoolExecutor per group           *)

Children(p) == Range(tree[p].children)

IndexOf(p, c) == CHOOSE i \in 1..Len(tree[p].children) : tree[p].children[i] = c

\* 190-191 and 198 / 215: nothing to do without children, else every child
\* is submitted to the pool
ParSubmit(g, p) ==
    /\ IsRunning(g, p, "parallel", "submit")
    /\ ns' = IF tree[p].children = <<>>
             THEN Finish(ns, g, p, "ok", NoExc)
             ELSE [ns EXCEPT ![g] = [n \in Nodes |->
                       IF n \in Children(p) THEN [Idle EXCEPT !.st = "queued"]
                       ELSE IF n = p THEN [ns[g][p] EXCEPT !.pc = "iter"]
                       ELSE ns[g][n]]]
    /\ UNCHANGED engFrame

\* the pool runs at most max_workers children at a time
WorkerFree(g, p) ==
    Cardinality({c \in Children(p) : ns[g][c].st = "running"}) < tree[p].max_workers

\* a worker thread takes the oldest pending work item and runs child.run
PoolStart(g, p, c) ==
    /\ g \in Gens /\ p \in Nodes
    /\ tree[p].kind = "parallel"
    /\ c \in Children(p)
    /\ ns[g][c].st = "queued"
    /\ \A d \in Children(p) : IndexOf(p, d) < IndexOf(p, c) => ns[g][d].st # "queued"
    /\ WorkerFree(g, p)
    /\ ns' = StartNode(ns, g, c)
    /\ UNCHANGED engFrame

\* as_completed(futures) starts: the futures already finished are yielded
\* first, in no particular order
ParIter(g, p) ==
    /\ IsRunning(g, p, "parallel", "iter")
    /\ ns' = [ns EXCEPT ![g][p].pc = "wait",
                        ![g][p].snap = {c \in Children(p) : Finished(ns[g][c])}]
    /\ UNCHANGED engFrame

\* the next future as_completed yields: any of those finished when it
\* started, then the others in the order they finish
Yields(g, p, c) ==
    /\ c \in Children(p) \ ns[g][p].seen
    /\ Finished(ns[g][c])
    /\ \/ c \in ns[g][p].snap
       \/ /\ ns[g][p].snap \subseteq ns[g][p].seen
          /\ \E i \in 1..Len(ns[g][p].finq) :
                /\ ns[g][p].finq[i] = c
                /\ \A j \in 1..(i - 1) : ns[g][p].finq[j] \in ns[g][p].seen

\* the name the group gives the error of a failed child (210 / 225)
ParErrorName(p, c) == tree[c].name

\* 200-212 / 217-228: future.result() of the future yielded
ParObserve(g, p, c) ==
    /\ IsRunning(g, p, "parallel", "wait")
    /\ c \in Nodes
    /\ Yields(g, p, c)
    /\ LET error == ExecutionError(ParErrorName(p, c), ns[g][c].err)
       IN  ns' = IF ns[g][c].st = "ok"
                 THEN [ns EXCEPT ![g][p].seen = @ \cup {c}]
                 ELSE IF tree[p].fail_fast
                 THEN [ns EXCEPT ![g][p].seen = @ \cup {c},
                                 ![g][p].first = error,
                                 ![g][p].pc = "cancel"]
                 ELSE [ns EXCEPT ![g][p].seen = @ \cup {c},
                                 ![g][p].errs = Append(@, error)]
    /\ UNCHANGED engFrame

\* the as_completed loop ends when every future has been yielded
ParLoopEnd(g, p) ==
    /\ IsRunning(g, p, "parallel", "wait")
    /\ ns[g][p].seen = Children(p)
    /\ ns' = [ns EXCEPT ![g][p].pc = "exit"]
    /\ UNCHANGED engFrame

\* 206-207: for f in futures: f.cancel().  cancel() only changes a future
\* that is still pending, so each step is the cancel of the oldest pending one
ParCancel(g, p) ==
    /\ IsRunning(g, p, "parallel", "cancel")
    /\ LET pending == {c \in Children(p) : ns[g][c].st = "queued"}
       IN  ns' = IF pending = {}
                 THEN [ns EXCEPT ![g][p].pc = "exit"]
                 ELSE LET c == CHOOSE x \in pending :
                                  \A y \in pending : IndexOf(p, x) <= IndexOf(p, y)
                      IN  [ns EXCEPT ![g][c].st = "cancelled"]
    /\ UNCHANGED engFrame

\* a pool that is left without waiting
PoolIdleNoWait(g, p) == TRUE

\* a pool that waits for its cancelled futures to run as well
PoolIdleAllRan(g, p) == \A c \in Children(p) : ns[g][c].st \in {"ok", "failed"}

\* leaving `with ThreadPoolExecutor(...)` is shutdown(wait=True): the group
\* waits for the children that are running or pending
PoolIdle(g, p) == \A c \in Children(p) : ns[g][c].st \notin {"queued", "running"}

\* 208-212 raise of the first error, or 230-235 after the loop
ParExit(g, p) ==
    /\ IsRunning(g, p, "parallel", "exit")
    /\ PoolIdle(g, p)
    /\ ns' = IF ns[g][p].first # NoExc
             THEN Finish(ns, g, p, "failed", ns[g][p].first)
             ELSE IF ns[g][p].errs # <<>>
             THEN Finish(ns, g, p, "failed",
                         AggregateError(tree[p].name, Len(ns[g][p].errs)))
             ELSE Finish(ns, g, p, "ok", NoExc)
    /\ UNCHANGED engFrame

-----------------------------------------------------------------------------
(* Parallel.run_async, node.py 237-276: asyncio.gather                     *)

\* 239-240, 246-248 / 258-259: gather wraps every child in a task; the sync
\* functions of the leaves run on the threads of the loop's default executor
ParGather(g, p) ==
    /\ IsRunning(g, p, "parallel", "gather")
    /\ ns' = IF tree[p].children = <<>>
             THEN Finish(ns, g, p, "ok", NoExc)
             ELSE [ns EXCEPT ![g] = [n \in Nodes |->
                       IF n \in Children(p) THEN StartNode(ns, g, n)[g][n]
                       ELSE IF n = p THEN [ns[g][p] EXCEPT !.pc = "await"]
                       ELSE ns[g][n]]]
    /\ UNCHANGED engFrame

FailedIn(g, q) == {i \in 1..Len(q) : ns[g][q[i]].st = "failed"}

\* the first child that failed, in the order the children completed
FirstFailed(g, p) ==
    ns[g][p].finq[CHOOSE i \in FailedIn(g, ns[g][p].finq) :
                      \A j \in FailedIn(g, ns[g][p].finq) : i <= j]

\* the name the group gives the error gather raised (253)
ParAsyncErrorName(p, c) == tree[p].name

\* 247-255: gather raises the first exception of a child as soon as it
\* occurs and leaves the other children running
ParAwaitFailFast(g, p) ==
    /\ IsRunning(g, p, "parallel", "await")
    /\ tree[p].fail_fast
    /\ \/ /\ FailedIn(g, ns[g][p].finq) # {}
          /\ LET c == FirstFailed(g, p)
             IN  ns' = Finish(ns, g, p, "failed",
                              ExecutionError(ParAsyncErrorName(p, c), ns[g][c].err))
       \/ /\ \A c \in Children(p) : ns[g][c].st = "ok"
          /\ ns' = Finish(ns, g, p, "ok", NoExc)
    /\ UNCHANGED engFrame

\* a gather whose exceptions are dropped
NoErrors(g, p, i) == <<>>

\* the errors of the failed children among the first i, in list order
RECURSIVE CollectErrors(_, _, _)
CollectErrors(g, p, i) ==
    IF i = 0 THEN <<>>
    ELSE LET c == tree[p].children[i]
             rest == CollectErrors(g, p, i - 1)
         IN  IF ns[g][c].st = "failed"
             THEN Append(rest, ExecutionError(tree[c].name, ns[g][c].err))
             ELSE rest

\* 258-276: gather(return_exceptions=True) returns when every child is done
ParAwaitCollect(g, p) ==
    /\ IsRunning(g, p, "parallel", "await")
    /\ ~tree[p].fail_fast
    /\ \A c \in Children(p) : Finished(ns[g][c])
    /\ LET errors == CollectErrors(g, p, Len(tree[p].children))
       IN  ns' = IF errors # <<>>
                 THEN Finish([ns EXCEPT ![g][p].errs = errors], g, p, "failed",
                             AggregateError(tree[p].name, Len(errors)))
                 ELSE Finish(ns, g, p, "ok", NoExc)
    /\ UNCHANGED engFrame

-----------------------------------------------------------------------------
(* ByArgs.__iter__, node.py 311-344                                        *)

\* itertools.product(*param_values): the last list varies fastest
RECURSIVE Product(_)
Product(lists) ==
    IF lists = <<>> THEN << <<>> >>
    ELSE LET h == Head(lists)
             rest == Product(Tail(lists))
         IN  [k \in 1..(Len(h) * Len(rest)) |->
                 <<h[((k - 1) \div Len(rest)) + 1]>> \o rest[((k - 1) % Len(rest)) + 1]]

\* str(v) of a value: the digits of an int, the text of a str, "None"
Str(x) == IF x.t = "s" THEN ToString(x.v) ELSE IF x.t = "str" THEN x.v ELSE "None"

\* ','.join(f'{k}={v}' for k, v in new_kwargs.items())
RECURSIVE JoinArgs(_, _)
JoinArgs(names, combination) ==
    IF names = <<>> THEN ""
    ELSE Head(names) \o "=" \o Str(Head(combination))
         \o (IF Len(names) > 1 THEN "," ELSE "")
         \o JoinArgs(Tail(names), Tail(combination))

\* 328-342: the clone for one combination
ByArgsClone(base, names, combination) ==
    [ModuleAdapter(base.name \o "[" \o JoinArgs(names, combination) \o "]",
                   base.out_name, base.func)
        EXCEPT !.func_kwargs =
                   [q \in DOMAIN base.func_kwargs \cup Range(names) |->
                       IF q \in Range(names)
                       THEN combination[CHOOSE i \in 1..Len(names) : names[i] = q]
                       ELSE base.func_kwargs[q]],
               !.accumulate_result = TRUE]

\* ByArgs(base, args) iterated; args lists the (name, values) pairs in dict order
ByArgs(base, args) ==
    LET names == [i \in 1..Len(args) |-> args[i].name]
        combinations == Product([i \in 1..Len(args) |-> args[i].values])
    IN  [k \in 1..Len(combinations) |-> ByArgsClone(base, names, combinations[k])]

\* Parallel([ByArgs(base, args)], name=name) while __init__ (160-186) runs:
\* the children flattened so far, and the generator it is iterating
ParallelInit(name, base, args) ==
    [kind |-> "parallel_init", name |-> name, children |-> <<>>,
     base_node |-> base, args |-> args]

\* 181: flattened_children.extend(child) takes the next clone of the generator
ByArgsYield(p) ==
    /\ p \in Nodes
    /\ tree[p].kind = "parallel_init"
    /\ LET clones == ByArgs(tree[p].base_node, tree[p].args)
           k == Len(tree[p].children) + 1
       IN  /\ k <= Len(clones)
           /\ tree' = Append([tree EXCEPT ![p].children = Append(@, Len(tree) + 1)],
                             clones[k])
    /\ UNCHANGED <<ctxVars, thVars, regVars, mode, policy, ns, ex>>

\* 184-186: the generator is exhausted, the Parallel is complete
ParallelInitEnd(p) ==
    /\ p \in Nodes
    /\ tree[p].kind = "parallel_init"
    /\ Len(tree[p].children) = Len(ByArgs(tree[p].base_node, tree[p].args))
    /\ tree' = [tree EXCEPT ![p] = Parallel(tree[p].name, tree[p].children, 0, TRUE)]
    /\ UNCHANGED <<ctxVars, thVars, regVars, mode, policy, ns, ex>>

-----------------------------------------------------------------------------
(* ByKeys, node.py 350-496: the fan-out over the items the Context holds   *)

\* ByKeys(base_node, keys, input_key_name=input_key_name, name=name)
ByKeys(name, base, keys, input_key_name) ==
    [kind |-> "bykeys", name |-> name, children |-> <<>>, continue_on_error |-> FALSE,
     fail_fast |-> TRUE, max_workers |-> 0, retries |-> 0,
     out_name |-> "", accumulate_result |-> FALSE, func |-> NoFunc,
     func_kwargs |-> <<>>,
     base_node |-> base, keys |-> keys, input_key_name |-> input_key_name]

\* a loop that appends every element as it is
NoFlatten(value, h) == value

\* 415-420: for item in value: extend for a list or tuple, append otherwise
RECURSIVE FlattenOne(_, _)
FlattenOne(value, h) ==
    IF value = <<>> THEN <<>>
    ELSE (IF IsList(Head(value)) THEN h[Head(value).v] ELSE <<Head(value)>>)
         \o FlattenOne(Tail(value), h)

\* 399-420: the loop over self.keys from the i-th key on, all_items so far;
\* `read` are the keys context[key] was evaluated for
RECURSIVE CollectItems(_, _, _, _, _)
CollectItems(d, h, keys, i, all_items) ==
    IF i > Len(keys)
    THEN [error |-> "", all_items |-> all_items, read |-> Range(keys)]
    ELSE IF ~DataContains(d, keys[i])
    THEN [error |-> "not found", all_items |-> all_items,
          read |-> {keys[j] : j \in 1..(i - 1)}]
    ELSE IF ~IsList(d[keys[i]])
    THEN [error |-> "must be a list or tuple", all_items |-> all_items,
          read |-> {keys[j] : j \in 1..i}]
    ELSE CollectItems(d, h, keys, i + 1, all_items \o FlattenOne(h[d[keys[i]].v], h))

\* 427-443: the clone for the i-th item (enumerate counts from 0)
ByKeysClone(base, input_key_name, item, i) ==
    [ModuleAdapter(base.name \o "[" \o ToString(i - 1) \o "]", base.out_name, base.func)
        EXCEPT !.func_kwargs =
                   [q \in DOMAIN base.func_kwargs \cup {input_key_name} |->
                       IF q = input_key_name THEN item ELSE base.func_kwargs[q]],
               !.accumulate_result = TRUE]

\* a fan-out that gives every clone the first item
ByKeysClonesOfFirst(base, input_key_name, all_items) ==
    [i \in 1..Len(all_items) |-> ByKeysClone(base, input_key_name, all_items[1], i)]

\* a fan-out whose clones are plain leaves
ByKeysClonesPlain(base, input_key_name, all_items) ==
    [i \in 1..Len(all_items) |->
        [ByKeysClone(base, input_key_name, all_items[i], i)
            EXCEPT !.accumulate_result = FALSE]]

\* 426-443: nodes, one clone per item
ByKeysClones(base, input_key_name, all_items) ==
    [i \in 1..Len(all_items) |-> ByKeysClone(base, input_key_name, all_items[i], i)]

\* a collection that ignores the keys after the first
CollectFirstKey(d, h, keys) ==
    CollectItems(d, h, SubSeq(keys, 1, 1), 1, <<>>)

\* 397-420: all_items of the Context d
Collect(d, h, keys) == CollectItems(d, h, keys, 1, <<>>)

\* 422-424: if not all_items: return
NothingToDo(all_items) == all_items = <<>>

\* ByKeys.run 393-447 and run_async 449-496 up to the call of parallel.run:
\* the items are collected, and unless a key fails the test or there is no
\* item, Parallel(nodes, name=f"{self.name}_parallel") is built and started.
\* The new nodes take the next free ids of the tree.
ByKeysRun(g, b) ==
    /\ IsRunning(g, b, "bykeys", "collect")
    /\ LET r == Collect(data, heap, tree[b].keys)
           nodes == ByKeysClones(tree[b].base_node, tree[b].input_key_name, r.all_items)
           p == Len(tree) + 1
           parallel == Parallel(tree[b].name \o "_parallel",
                                [i \in 1..Len(nodes) |-> p + i], 0, TRUE)
           started == [Idle EXCEPT !.st = "running", !.i = 1,
                                   !.pc = IF mode = "sync" THEN "submit" ELSE "gather"]
       IN  /\ accessed' = accessed \cup r.read
           /\ IF r.error # ""
              THEN /\ ns' = Finish(ns, g, b, "failed", ExecutionError(tree[b].name, NoExc))
                   /\ tree' = tree
              ELSE IF NothingToDo(r.all_items)
              THEN /\ ns' = Finish(ns, g, b, "ok", NoExc)
                   /\ tree' = tree
              ELSE /\ tree' = [tree EXCEPT ![b].children = <<p>>] \o <<parallel>> \o nodes
                   /\ ns' = [h \in Gens |-> [n \in 1..(p + Len(nodes)) |->
                                IF n = p /\ h = g THEN started
                                ELSE IF n = b /\ h = g THEN [ns[g][b] EXCEPT !.pc = "wait"]
                                ELSE IF n \in Nodes THEN ns[h][n]
                                ELSE Idle]]
    /\ UNCHANGED <<data, heap, written, threadSafe, lockOwner, thVars, regVars, mode, policy, ex>>

\* 447 / 496: parallel.run(context) returned, or raised and the error
\* leaves ByKeys.run as it is
ByKeysDone(g, b) ==
    /\ IsRunning(g, b, "bykeys", "wait")
    /\ LET p == tree[b].children[1]
       IN  /\ Finished(ns[g][p])
           /\ ns' = Finish(ns, g, b, ns[g][p].st, ns[g][p].err)
    /\ UNCHANGED engFrame

-----------------------------------------------------------------------------
(* Executor.run / run_async and _run_with_retry, executor.py 66-274        *)

BackoffUnit == 1     \* policy.retry_backoff, in time units

\* 156: retries = node.retries if node.retries > 0 else 0
Retries(n) == IF tree[n].retries > 0 THEN tree[n].retries ELSE 0

\* a retry test that accepts every exception
AlwaysRetry(e) == TRUE

\* 188: any(isinstance(e, exc_type) for exc_type in self.policy.retry_on)
ShouldRetry(e) == \E T \in policy.retry_on : IsInstance(e, T)

exFrame == <<ctxVars, thVars, regVars, tree, mode, policy>>

\* what a hook of the policy raises when it is one that raises
HookExc == UserExc("RuntimeError")

\* self.policy.<hook>(node, context, ...) of 162-163, 171-172, 180-185: the
\* call is recorded when the hook is configured; failed tells whether the
\* hook was given an exception
CallHook(x, hook, failed) ==
    IF policy[hook] = "none" THEN x
    ELSE [x EXCEPT !.hooks = Append(@, [hook |-> hook, node |-> Root, failed |-> failed])]

HookRaises(hook) == policy[hook] = "raises"

\* after_node(node, context, None) raises: the hook raises whenever it is
\* called, or it rejects the outcome of a step that succeeded and returns
\* when it is given an error
AfterRaisesOnSuccess == policy.after_node \in {"raises", "rejects"}

\* a result whose success flag is only cleared in fail_fast mode
ResultCollectSucceeds(errors) ==
    [success |-> ~(errors # <<>> /\ policy.error_mode = "fail_fast"), errors |-> errors]

\* a fail_fast result that leaves the caught error out
ResultWithoutErrors(errors) ==
    IF errors # <<>> /\ policy.error_mode = "fail_fast"
    THEN [success |-> FALSE, errors |-> <<>>]
    ELSE [success |-> Len(errors) = 0, errors |-> errors]

\* a COLLECT mode that reports success whatever was caught
ResultForCollectPasses(error_mode, errors) ==
    [success |-> errors = <<>> \/ error_mode = "collect", errors |-> errors]

\* 91-108 / 135-152: the early return of 93-100 under ErrorMode.FAIL_FAST
\* when an error was caught, else the return of 102-108
ResultFor(error_mode, errors) ==
    IF errors # <<>> /\ error_mode = "fail_fast"
    THEN [success |-> FALSE, errors |-> errors]
    ELSE [success |-> Len(errors) = 0, errors |-> errors]

\* 91-108: what Executor.run returns for the errors it caught
Result(errors) == ResultFor(policy.error_mode, errors)

\* 195-202: an ExecutionError is re-raised, anything else is wrapped
Reraised(e) ==
    IF e[1].type = "ExecutionError" THEN e ELSE ExecutionError(tree[Root].name, e)

\* 176-202: the except block of attempt x.attempt for the exception e.  An
\* exception of the on_error or after_node hook leaves _run_with_retry and,
\* not being an ExecutionError, Executor.run (91) as well.
Handle(x, e) ==
    LET a == CallHook(x, "on_error", TRUE)
        b == CallHook(a, "after_node", TRUE)
    IN  IF HookRaises("on_error") THEN [a EXCEPT !.pc = "raised", !.raised = HookExc]
        ELSE IF HookRaises("after_node") THEN [b EXCEPT !.pc = "raised", !.raised = HookExc]
        ELSE IF x.attempt < Retries(Root) /\ ShouldRetry(e) THEN [b EXCEPT !.pc = "sleep"]
        ELSE [b EXCEPT !.pc = "done", !.result = Result(<<Reraised(e)>>)]

\* an attempt whose before_node hook is called outside the try block
AttemptUnprotected(x) ==
    LET a == CallHook(x, "before_node", FALSE)
    IN  IF HookRaises("before_node")
        THEN [nsv |-> ns, exv |-> [a EXCEPT !.pc = "raised", !.raised = HookExc]]
        ELSE [nsv |-> StartNode(ns, x.attempt, Root), exv |-> [a EXCEPT !.pc = "run"]]

\* 159-167: an attempt starts: the before_node hook, then node.run(context)
Attempt(x) ==
    LET a == CallHook(x, "before_node", FALSE)
    IN  IF HookRaises("before_node")
        THEN [nsv |-> ns, exv |-> Handle(a, HookExc)]
        ELSE [nsv |-> StartNode(ns, x.attempt, Root), exv |-> [a EXCEPT !.pc = "run"]]

\* 83-90: the Context exists, the first attempt starts
ExecBegin ==
    /\ ex.pc = "start"
    /\ ns' = Attempt(ex).nsv
    /\ ex' = Attempt(ex).exv
    /\ UNCHANGED exFrame

\* 167-202: node.run returned or raised; 89-108: the result of the run
ExecNodeDone ==
    /\ ex.pc = "run"
    /\ Finished(ns[ex.attempt][Root])
    /\ ex' = IF ns[ex.attempt][Root].st = "ok"
             THEN LET a == CallHook(ex, "after_node", FALSE)
                  IN  IF AfterRaisesOnSuccess THEN Handle(a, HookExc)
                      ELSE [a EXCEPT !.pc = "done", !.result = Result(<<>>)]
             ELSE Handle(ex, ns[ex.attempt][Root].err)
    /\ UNCHANGED <<exFrame, ns>>

\* a retry that starts from an empty Context
RetryFreshContext(d) == [k \in EngKeys |-> Absent]

\* 159-167: every attempt is given the same Context object
RetryContext(d) == d

\* a delay that does not grow with the attempt
BackoffFlat(attempt) == BackoffUnit

\* 191 / 252: self.policy.retry_backoff * (attempt + 1)
Backoff(attempt) == BackoffUnit * (attempt + 1)

\* 191-192: time.sleep(retry_backoff * (attempt + 1)), then the next attempt
ExecRetry ==
    /\ ex.pc = "sleep"
    /\ LET x == [ex EXCEPT !.attempt = @ + 1,
                           !.slept = @ + Backoff(ex.attempt)]
       IN  /\ ns' = Attempt(x).nsv
           /\ ex' = Attempt(x).exv
    /\ data' = RetryContext(data)
    /\ UNCHANGED <<heap, written, accessed, threadSafe, lockOwner, thVars, regVars,
                   tree, mode, policy>>

\* ExecutionPolicy(error_mode=..., retry_on=[...]) without hooks and timeout
Policies ==
    [error_mode : {"fail_fast", "collect"}, retry_on : {{"Exception"}, {"ValueError"}},
     before_node : {"none"}, after_node : {"none"}, on_error : {"none"}, timeout : {0}]

\* Executor(policy).run(tree) or run_async(tree) on a new Context
InitEngine(trees, policies) ==
    /\ data = [k \in EngKeys |-> Absent]
    /\ heap = <<>>
    /\ written = {}
    /\ accessed = {}
    /\ threadSafe = TRUE
    /\ lockOwner = 0
    /\ th = <<>>
    /\ order = <<>>
    /\ last = NoLast
    /\ tree \in trees
    /\ mode \in {"sync", "async"}
    /\ policy \in policies
    /\ ns = [g \in 0..Retries(Root) |-> [n \in Nodes |-> Idle]]
    /\ ex = [pc |-> "start", attempt |-> 0, slept |-> 0, hooks |-> <<>>, raised |-> NoExc,
             result |-> [success |-> FALSE, errors |-> <<>>]]
    /\ NoRegistry

-----------------------------------------------------------------------------
(* The step trees of the scenarios                                         *)

MaxRetries == 1      \* the root's retries range over 0..MaxRetries
MaxNodes == 5        \* the largest number of nodes of a tree

GenIds == 0..MaxRetries
NodeIds == 1..MaxNodes

WithRetries(node, r) == [node EXCEPT !.retries = r]

\* a leaf named `name` whose function produces v for key k: by returning it
\* (out_name=k), by writing it, or not at all because it raises, before or
\* after writing
LeafKinds(name, k, v) ==
    {ModuleAdapter(name, k, Returns(v)),
     ModuleAdapter(name, "", WritesTo(k, v)),
     ModuleAdapter(name, k, Raises("ValueError")),
     ModuleAdapter(name, "", Func(k, v, Nil, "ValueError"))}

\* Serial([A, B]), Serial([A, B, C]) and Serial([Serial([A, B]), C]); B may
\* write the key A writes
SerialTrees ==
    LET As == LeafKinds("A", "a", S(1))
        Bs == LeafKinds("B", "a", S(2)) \cup LeafKinds("B", "b", S(2))
        Cs == LeafKinds("C", "c", S(1))
    IN  {<<WithRetries(Serial("S", <<2, 3>>, coe), r), A, B>> :
            coe \in BOOLEAN, r \in 0..MaxRetries, A \in As, B \in Bs}
        \cup
        {<<WithRetries(Serial("S", <<2, 3, 4>>, coe), r), A, B, C>> :
            coe \in BOOLEAN, r \in 0..MaxRetries, A \in As, B \in Bs, C \in Cs}
        \cup
        {<<WithRetries(Serial("S", <<2, 5>>, coe), r), Serial("T", <<3, 4>>, FALSE),
           A, B, C>> :
            coe \in BOOLEAN, r \in 0..MaxRetries, A \in As, B \in Bs, C \in Cs}

InitSerial == InitEngine(SerialTrees, Policies)

NextSerial ==
    \/ \E g \in GenIds, n \in NodeIds :
          \/ LeafCall(g, n) \/ LeafStore(g, n)
          \/ SerialStart(g, n) \/ SerialChildDone(g, n) \/ SerialEnd(g, n)
    \/ ExecBegin \/ ExecNodeDone \/ ExecRetry

SpecSerial == InitSerial /\ [][NextSerial]_vars

-----------------------------------------------------------------------------
(* Properties of Serial *)

\* the leaves below node n, in list order
RECURSIVE LeavesFrom(_, _)
LeavesOf(n) == IF tree[n].kind = "leaf" THEN <<n>> ELSE LeavesFrom(n, 1)
LeavesFrom(n, i) ==
    IF i > Len(tree[n].children) THEN <<>>
    ELSE LeavesOf(tree[n].children[i]) \o LeavesFrom(n, i + 1)

\* the effect on a Context d of a leaf without accumulate mode run alone:
\* the function's own write, then its non-None result under out_name
Effect(d, n) ==
    LET f == tree[n].func
        w == IF f.wkey # "" THEN [d EXCEPT ![f.wkey] = ArgValue(n, f.wval)] ELSE d
    IN  IF f.raises = "" /\ ArgValue(n, f.ret) # Nil /\ tree[n].out_name # ""
        THEN [w EXCEPT ![tree[n].out_name] = ArgValue(n, f.ret)]
        ELSE w

\* the effects of the leaves of q applied to d one after the other
RECURSIVE Effects(_, _)
Effects(d, q) == IF q = <<>> THEN d ELSE Effects(Effect(d, Head(q)), Tail(q))

\* the leaves that were run in invocation g, in list order
RanLeaves(g) == SelectSeq(LeavesOf(Root), LAMBDA n : ns[g][n].st # "idle")

EmptyContext == [k \in EngKeys |-> Absent]

RunDone == ex.pc = "done"

SerialNodes == {n \in Nodes : tree[n].kind = "serial"}
LeafNodes == {n \in Nodes : tree[n].kind = "leaf"}

RunningLeaves == {<<g, n>> \in Gens \X LeafNodes : ns[g][n].st = "running"}

\* C4: a Serial runs its children in list order and never two at a time, on
\* the sync and on the async path: a child has started only if every child
\* before it has finished, and no two leaves of a tree of Serials run at the
\* same time; after a successful run the Context holds the effects of the
\* children applied in list order (the later writer of a key wins).
C4_SerialInOrder ==
    /\ \A g \in Gens, s \in SerialNodes :
          \A i, j \in 1..Len(tree[s].children) :
              (i < j /\ ns[g][tree[s].children[j]].st # "idle")
                  => Finished(ns[g][tree[s].children[i]])
    /\ Cardinality(RunningLeaves) <= 1
    /\ (RunDone /\ ex.result.success) =>
          /\ data = Effects(EmptyContext, RanLeaves(ex.attempt))
          /\ (\A s \in SerialNodes : tree[s].continue_on_error = FALSE) =>
                 RanLeaves(ex.attempt) = LeavesOf(Root)

\* a successful asynchronous run of Serial([A, B]) where both write key a
C4_Witness ==
    /\ RunDone /\ ex.result.success /\ mode = "async"
    /\ Len(tree) = 3 /\ ~tree[Root].continue_on_error
    /\ tree[2].func = Returns(S(1)) /\ tree[3].func = WritesTo("a", S(2))
    /\ data["a"] = S(2)

\* C5: when a child of a Serial with continue_on_error false fails, no later
\* child is ever run, the Serial raises one ExecutionError whose node_name is
\* the failed child's name and whose cause is the child's failure, and the
\* writes made before the failure remain in the Context.
C5_SerialAbortsOnFailure ==
    /\ \A g \in Gens, s \in SerialNodes :
          \A i \in 1..Len(tree[s].children) :
              LET c == tree[s].children[i]
              IN  (~tree[s].continue_on_error /\ ns[g][c].st = "failed") =>
                     /\ \A j \in (i + 1)..Len(tree[s].children) :
                            ns[g][tree[s].children[j]].st = "idle"
                     /\ Finished(ns[g][s]) =>
                            /\ ns[g][s].st = "failed"
                            /\ ns[g][s].err = ExecutionError(tree[c].name, ns[g][c].err)
    /\ (RunDone /\ ~ex.result.success) =>
          data = Effects(EmptyContext, RanLeaves(ex.attempt))

\* Serial([A, B, C]) failed at B: A's write is there, C never ran
C5_Witness ==
    /\ RunDone /\ ~ex.result.success
    /\ Len(tree) = 4 /\ ~tree[Root].continue_on_error
    /\ ns[ex.attempt][2].st = "ok" /\ data["a"] = S(1)
    /\ ns[ex.attempt][3].st = "failed"
    /\ ns[ex.attempt][4].st = "idle"
    /\ ex.result.errors = <<ExecutionError("B", ns[ex.attempt][3].err)>>

FailedChildren(g, s) == {c \in Children(s) : ns[g][c].st = "failed"}

\* C6: a Serial with continue_on_error true runs every child and then raises
\* an aggregate failure listing the recorded child failures if and only if a
\* child failed, so that the Executor reports success = false.
C6_ContinueOnErrorRaises ==
    /\ \A g \in Gens, s \in SerialNodes :
          (tree[s].continue_on_error /\ Finished(ns[g][s])) =>
              /\ \A c \in Children(s) : ns[g][c].st # "idle"
              /\ (ns[g][s].st = "failed") <=> (FailedChildren(g, s) # {})
              /\ ns[g][s].st = "failed" =>
                    ns[g][s].err = AggregateError(tree[s].name,
                                                  Cardinality(FailedChildren(g, s)))
    /\ (RunDone /\ tree[Root].continue_on_error
              /\ FailedChildren(ex.attempt, Root) # {}) => ~ex.result.success

-----------------------------------------------------------------------------
(* A Parallel group as the root                                            *)

\* Parallel([A, B, C], max_workers=mw, fail_fast=ff): the leaves write the
\* distinct keys a, b, c; mw = 0 stands for max_workers=None
ParallelTrees ==
    {<<Parallel("P", <<2, 3, 4>>, mw, ff), A, B, C>> :
        mw \in 0..2, ff \in BOOLEAN,
        A \in LeafKinds("A", "a", S(1)),
        B \in LeafKinds("B", "b", S(2)),
        C \in LeafKinds("C", "c", S(1))}

\* the default retry_on
RetryAll == {q \in Policies : q.retry_on = {"Exception"}}

InitParallel == InitEngine(ParallelTrees, RetryAll)

NextParallel ==
    \/ \E g \in GenIds, n \in NodeIds :
          \/ LeafCall(g, n) \/ LeafStore(g, n)
          \/ ParSubmit(g, n) \/ ParIter(g, n) \/ ParLoopEnd(g, n)
          \/ ParCancel(g, n) \/ ParExit(g, n)
          \/ ParGather(g, n) \/ ParAwaitFailFast(g, n) \/ ParAwaitCollect(g, n)
          \/ \E c \in NodeIds : PoolStart(g, n, c) \/ ParObserve(g, n, c)
    \/ ExecBegin \/ ExecNodeDone

SpecParallel == InitParallel /\ [][NextParallel]_vars

-----------------------------------------------------------------------------
(* Properties of Parallel *)

ParallelNodes == {n \in Nodes : tree[n].kind = "parallel"}

NoLeafRaises == \A n \in LeafNodes : tree[n].func.raises = ""

\* the key a leaf produces a value for, and the value
LeafKey(n) == IF tree[n].func.wkey # "" THEN tree[n].func.wkey ELSE tree[n].out_name
LeafValue(n) ==
    IF tree[n].func.wkey # "" THEN ArgValue(n, tree[n].func.wval)
    ELSE ArgValue(n, tree[n].func.ret)

\* C7: a Parallel group of leaves that each write one distinct key and none
\* of which fails, with max_workers 1, 2 or None, on the sync and the async
\* path: the run never gets stuck before it is done, it succeeds, and then
\* every key holds the value its own leaf produced.
C7_DistinctKeysAllPresent ==
    (tree[Root].kind = "parallel" /\ NoLeafRaises) =>
        /\ ~RunDone => ENABLED NextParallel
        /\ RunDone =>
              /\ ex.result.success /\ ex.result.errors = <<>>
              /\ \A n \in LeafNodes : data[LeafKey(n)] = LeafValue(n)

\* three leaves on one worker thread, all keys present after the run
C7_Witness ==
    /\ RunDone /\ ex.result.success /\ NoLeafRaises
    /\ tree[Root].kind = "parallel" /\ tree[Root].max_workers = 1 /\ mode = "sync"
    /\ data["a"] = S(1) /\ data["b"] = S(2) /\ data["c"] = S(1)
    /\ tree[3].func = WritesTo("b", S(2))

\* the first child of p the group observed to fail: the failed future that
\* as_completed yielded, or the first exception gather met
FirstObservedFailure(g, p) ==
    IF mode = "sync"
    THEN CHOOSE c \in ns[g][p].seen : ns[g][c].st = "failed"
    ELSE FirstFailed(g, p)

\* C8: a fail-fast Parallel in which a child fails raises one ExecutionError
\* whose node_name is the name of the first child observed to fail, with
\* that child's failure as its cause, on the sync and on the async path; the
\* Executor reports exactly this one error.
C8_FailFastNamesChild ==
    /\ \A g \in Gens, p \in ParallelNodes :
          (tree[p].fail_fast /\ ns[g][p].st = "failed") =>
              LET c == FirstObservedFailure(g, p)
              IN  ns[g][p].err = ExecutionError(tree[c].name, ns[g][c].err)
    /\ (RunDone /\ tree[Root].kind = "parallel" /\ tree[Root].fail_fast
            /\ ns[ex.attempt][Root].st = "failed") =>
          ex.result.errors = <<ns[ex.attempt][Root].err>>

\* C9: a Parallel with fail_fast false finishes only when every child has
\* run to completion (none pending, running or cancelled); it then raises an
\* aggregate ExecutionError counting the failed children if and only if a
\* child failed, and returns normally otherwise.
C9_CollectRunsAll ==
    \A g \in Gens, p \in ParallelNodes :
        (~tree[p].fail_fast /\ Finished(ns[g][p])) =>
            /\ \A c \in Children(p) : ns[g][c].st \in {"ok", "failed"}
            /\ (ns[g][p].st = "failed") <=> (FailedChildren(g, p) # {})
            /\ ns[g][p].st = "failed" =>
                  /\ ns[g][p].err = AggregateError(tree[p].name,
                                                   Cardinality(FailedChildren(g, p)))
                  /\ Len(ns[g][p].errs) = Cardinality(FailedChildren(g, p))

\* a collect-mode gather in which the first and the last child failed and
\* the one between them succeeded
C9_Witness ==
    /\ mode = "async" /\ tree[Root].kind = "parallel" /\ ~tree[Root].fail_fast
    /\ ns[0][Root].st = "failed"
    /\ ns[0][2].st = "failed" /\ ns[0][3].st = "ok" /\ ns[0][4].st = "failed"
    /\ ns[0][Root].err = AggregateError("P", 2)

\* the tree is a collect-mode Parallel with leaves [ok, fails, ok]
OkFailsOk ==
    /\ tree[Root].kind = "parallel" /\ ~tree[Root].fail_fast
    /\ Len(tree[Root].children) = 3
    /\ tree[2].func.raises = "" /\ tree[3].func.raises # "" /\ tree[4].func.raises = ""

\* C10: Executor.run / run_async of a collect-mode Parallel with leaves
\* [ok, fails, ok] returns success = false and exactly one error, and the
\* keys of the two succeeding leaves hold their values in the Context.
C10_CollectOneError ==
    (RunDone /\ OkFailsOk) =>
        /\ ~ex.result.success
        /\ Len(ex.result.errors) = 1
        /\ data[LeafKey(2)] = LeafValue(2)
        /\ data[LeafKey(4)] = LeafValue(4)

\* the run of [ok, fails, ok] under ErrorMode.COLLECT is over
C10_Witness ==
    /\ RunDone /\ OkFailsOk /\ policy.error_mode = "collect" /\ mode = "sync"
    /\ ~ex.result.success
    /\ ex.result.errors = <<AggregateError("P", 1)>>
    /\ data["a"] = S(1) /\ data["c"] = S(1) /\ data["b"] = Absent

\* C11: in a fail-fast Parallel, once a child has failed, no child that has
\* not started yet (not submitted, or pending in the pool) is started: it
\* stays as it is or is cancelled; on the sync and on the async path.
C11_NoStartAfterFailure ==
    [][\A g \in GenIds, p \in NodeIds, c \in NodeIds :
          (/\ g \in Gens /\ p \in ParallelNodes /\ c \in Children(p)
           /\ tree[p].fail_fast
           /\ FailedChildren(g, p) # {}
           /\ ns[g][c].st \in {"idle", "queued"})
              => ns'[g][c].st \in {"idle", "queued", "cancelled"}]_vars

\* the children of p that are executing
RunningChildren(g, p) == {c \in Children(p) : ns[g][c].st = "running"}

\* C12: at every moment the number of children of a Parallel that are
\* executing is at most its max_workers (the number of children when it is
\* None), in Parallel.run and in Parallel.run_async.
C12_MaxWorkers ==
    \A g \in Gens, p \in ParallelNodes :
        Cardinality(RunningChildren(g, p)) <= tree[p].max_workers

-----------------------------------------------------------------------------
(* Static fan-out: Parallel([ByArgs(T, args={"x": [v1, v2, v3]})])         *)

FanOutValues == <<S(1), S(2), S(3)>>

\* the template leaf T with out_name "a": its function returns its argument
\* x, or writes it to the output key itself
FanOutTemplates ==
    {ModuleAdapter("T", "a", Returns(Arg("x"))),
     ModuleAdapter("T", "a", WritesTo("a", Arg("x")))}

\* node.py 174-182: Parallel flattens the ByArgs into its clones; fail_fast
\* keeps its default, max_workers is None (0) or 1
FanOutTrees ==
    {<<Parallel("P", <<2, 3, 4>>, mw, TRUE)>>
        \o ByArgs(T, <<[name |-> "x", values |-> FanOutValues]>>) :
        mw \in 0..1, T \in FanOutTemplates}

\* ExecutionPolicy()
DefaultPolicy ==
    {q \in Policies : q.error_mode = "fail_fast" /\ q.retry_on = {"Exception"}}

InitFanOut == InitEngine(FanOutTrees, DefaultPolicy)

\* no clone raises, so no future is ever cancelled
NextFanOut ==
    \/ \E g \in GenIds, n \in NodeIds :
          \/ LeafOld(g, n) \/ LeafCall(g, n) \/ LeafNew(g, n)
          \/ LeafCmp(g, n) \/ LeafBuild(g, n) \/ LeafStore(g, n)
          \/ ParSubmit(g, n) \/ ParIter(g, n) \/ ParLoopEnd(g, n) \/ ParExit(g, n)
          \/ ParGather(g, n) \/ ParAwaitFailFast(g, n)
          \/ \E c \in NodeIds : PoolStart(g, n, c) \/ ParObserve(g, n, c)
    \/ ExecBegin \/ ExecNodeDone

SpecFanOut == InitFanOut /\ [][NextFanOut]_vars

\* the elements of sequence q are those of sequence r in some order
IsPermutation(q, r) ==
    /\ Len(q) = Len(r)
    /\ \E f \in [1..Len(q) -> 1..Len(r)] :
          /\ \A i, j \in 1..Len(q) : i # j => f[i] # f[j]
          /\ \A i \in 1..Len(q) : q[i] = r[f[i]]

\* C1: after a successful run of the fan-out over [v1, v2, v3], whatever the
\* interleaving of the clones, the output key holds a list that is a
\* permutation of [v1, v2, v3] (no scalar, no missing, duplicated or nested
\* element).
C1_FanOutPermutation ==
    (RunDone /\ ex.result.success) =>
        /\ IsList(data["a"])
        /\ IsPermutation(Norm(data["a"], heap).v, [i \in 1..3 |-> Norm(FanOutValues[i], heap)])

-----------------------------------------------------------------------------
(* The Executor with retries, hooks and a timeout                          *)

\* a hook of the policy: not configured, returning, or raising
HookKinds == {"none", "ok", "raises"}

\* ExecutionPolicy(timeout=..., retry_on=..., error_mode=..., before_node=...,
\* after_node=..., on_error=...); timeout 0 stands for None, 1 for one time
\* unit of retry_backoff
DriverPolicies ==
    [error_mode : {"fail_fast", "collect"}, retry_on : {{"Exception"}, {"ValueError"}},
     before_node : HookKinds, after_node : HookKinds, on_error : HookKinds,
     timeout : {0, 1}]

\* a function that writes key b and then raises ValueError: every time
\* (k = 0) or the first k times, returning 1 afterwards
WriteThenRaise(k) == FailsFirst(k, Func("b", S(2), S(1), "ValueError"))

\* the leaves with out_name "a": one that returns 1, and those that fail
DriverLeaves(name) ==
    {ModuleAdapter(name, "a", Returns(S(1)))}
        \cup {ModuleAdapter(name, "a", WriteThenRaise(k)) : k \in 0..MaxRetries}

\* a leaf as the root, and Serial([A, B]): A and the root have retries
DriverTrees ==
    {<<WithRetries(A, r)>> : A \in DriverLeaves("A"), r \in (0 - 1)..MaxRetries}
        \cup
    {<<WithRetries(Serial("S", <<2, 3>>, FALSE), rs), WithRetries(A, r),
       ModuleAdapter("B", "c", Returns(S(1)))>> :
        rs \in {0, MaxRetries}, r \in 0..MaxRetries, A \in DriverLeaves("A")}

InitDriver == InitEngine(DriverTrees, DriverPolicies)

NextDriver ==
    \/ \E g \in GenIds, n \in NodeIds :
          \/ LeafCall(g, n) \/ LeafStore(g, n)
          \/ SerialStart(g, n) \/ SerialChildDone(g, n) \/ SerialEnd(g, n)
    \/ ExecBegin \/ ExecNodeDone \/ ExecRetry

SpecDriver == InitDriver /\ [][NextDriver]_vars

-----------------------------------------------------------------------------
(* Properties of the Executor *)

NoRaisingHook ==
    \A h \in {"before_node", "after_node", "on_error"} : policy[h] # "raises"

\* exception e matches a type of the policy's retry_on
Matches(e) == \E T \in policy.retry_on : IsInstance(e, T)

\* the root failed in the last attempt
RootFailed == ns[ex.attempt][Root].st = "failed"

\* C13: Executor.run and run_async never raise, whatever the tree, the
\* policy and the hooks (raising hooks included): no exception leaves the
\* call, and a failure of the root is in the error list of the result.
C13_NeverRaises ==
    /\ ex.pc # "raised"
    /\ ex.raised = NoExc
    /\ (RunDone /\ RootFailed) => ex.result.errors # <<>>

\* C14: in every result success is true iff the error list is empty, and a
\* failure of the root that no retry recovered gives success = false and a
\* non-empty error list, under ErrorMode.FAIL_FAST and ErrorMode.COLLECT.
C14_SuccessIffNoErrors ==
    RunDone =>
        /\ ex.result.success <=> (ex.result.errors = <<>>)
        /\ RootFailed =>
              /\ ~ex.result.success
              /\ ex.result.errors = <<ns[ex.attempt][Root].err>>

\* a leaf that failed in both attempts, under ErrorMode.FAIL_FAST
C14_Witness ==
    /\ RunDone /\ policy.error_mode = "fail_fast" /\ tree[Root].kind = "leaf"
    /\ ex.attempt = 1 /\ ns[0][Root].st = "failed" /\ ns[1][Root].st = "failed"
    /\ ~ex.result.success /\ Len(ex.result.errors) = 1

\* the exception that ended attempt g: the root's, or the before_node
\* hook's when the root was not run
AttemptError(g) == IF ns[g][Root].st = "idle" THEN HookExc ELSE ns[g][Root].err

Retried(g) == ex.attempt > g \/ (ex.attempt = g /\ ex.pc = "sleep")

\* C16: a leaf whose function raised an exception of type T in an attempt
\* with retry budget left is retried if and only if T matches a type of
\* retry_on.
C16_RetryOnCause ==
    \A g \in Gens :
        (/\ tree[Root].kind = "leaf" /\ NoRaisingHook
         /\ ns[g][Root].st = "failed" /\ g < Retries(Root)
         /\ (Retried(g) \/ RunDone))
            => (Retried(g) <=> Matches(UserExc(tree[Root].func.raises)))

\* C17: a leaf with retries = R inside a Serial that fails k <= R times and
\* then succeeds is re-invoked until it succeeds: the Serial never fails and
\* the run reports success with no errors.
C17_RetryAtAnyDepth ==
    (/\ RunDone /\ NoRaisingHook /\ tree[Root].kind = "serial"
     /\ tree[2].func.times > 0 /\ tree[2].func.times <= Retries(2)
     /\ "Exception" \in policy.retry_on)
        => /\ ex.result.success /\ ex.result.errors = <<>>
           /\ \A g \in Gens : ns[g][Root].st # "failed"

\* the function of leaf n has been called in attempt g
Called(g, n) ==
    \/ ns[g][n].st \in {"ok", "failed"}
    \/ ns[g][n].st = "running" /\ ns[g][n].pc = "store"

\* C18: nothing is rolled back: what the function of a step wrote before it
\* failed is in the Context from then on, during the retried attempts and
\* in the returned result, whether the run succeeds or fails.
C18_NoRollback ==
    \A g \in Gens, n \in LeafNodes :
        (Called(g, n) /\ tree[n].func.wkey # "") =>
            data[tree[n].func.wkey] = tree[n].func.wval

\* the leaf wrote b and failed, the retry is running and b is still there
C18_Witness ==
    /\ tree[Root].kind = "leaf" /\ tree[Root].func.wkey = "b"
    /\ ex.attempt = 1 /\ ex.pc = "run"
    /\ ns[0][Root].st = "failed" /\ ns[1][Root].st = "running"
    /\ ns[1][Root].pc = "call"
    /\ data["b"] = S(2)

\* the policy has a timeout and the time slept reaches it
DeadlinePassed == policy.timeout > 0 /\ ex.slept >= policy.timeout

\* C19: once the deadline of policy.timeout has passed no retry attempt is
\* started, and the result reports a timeout failure.
C19_TimeoutStopsRetries ==
    DeadlinePassed =>
        /\ ns[ex.attempt][Root].st = "idle"
        /\ RunDone =>
              /\ ~ex.result.success
              /\ \E i \in DOMAIN ex.result.errors :
                    \E j \in DOMAIN ex.result.errors[i] :
                        ex.result.errors[i][j].type = "TimeoutError"

\* hook `hook` was called with node n
HookCalled(hook, n) ==
    \E i \in DOMAIN ex.hooks : ex.hooks[i].hook = hook /\ ex.hooks[i].node = n

\* C20: with the three hooks configured, before_node has been called with
\* every step that has started, and when the run is over after_node has
\* been called with every step that ran and on_error with every step that
\* failed.
C20_HooksAroundEveryStep ==
    (policy.before_node = "ok" /\ policy.after_node = "ok" /\ policy.on_error = "ok") =>
        \A g \in Gens, n \in Nodes :
            /\ ns[g][n].st # "idle" => HookCalled("before_node", n)
            /\ (RunDone /\ Finished(ns[g][n])) => HookCalled("after_node", n)
            /\ (RunDone /\ ns[g][n].st = "failed") => HookCalled("on_error", n)

-----------------------------------------------------------------------------
(* Fan-out expansion: Executor().run(ByKeys(T, keys)) on a Context that    *)
(* holds lists, and the construction Parallel([ByArgs(T, args)])           *)

MaxValues == 2       \* the longest value list of a ByArgs parameter

\* list objects of the initial Context: [], [1], [1, 2], [[]], [[1], 2],
\* [[[1], 2]] and [2]
ListObjects ==
    << <<>>, <<S(1)>>, <<S(1), S(2)>>, <<R(1)>>, <<R(2), S(2)>>, <<R(5)>>, <<S(2)>> >>

\* what the keys a and b hold: a is missing, a scalar or any of the lists
\* while b is missing, or both hold at most one item
ByKeysContexts ==
    {<<x, Absent>> : x \in {Absent, S(1)} \cup {R(i) : i \in DOMAIN ListObjects}}
    \cup {<<x, y>> : x \in {Absent, S(1), R(1), R(2), R(4)},
                     y \in {S(1), R(1), R(4), R(7)}}

WithKwargs(node, kwargs) == [node EXCEPT !.func_kwargs = kwargs]

\* the template leaf with out_name "c": its function returns its argument
\* `input`, or writes it to the output key itself; the second template has
\* keyword arguments of its own
ByKeysTemplates ==
    {ModuleAdapter("T", "c", Returns(Arg("input"))),
     WithKwargs(ModuleAdapter("T", "c", WritesTo("c", Arg("input"))),
                [q \in {"input", "lang"} |-> S(2)])}

ByKeysTrees ==
    {<<ByKeys("K", T, keys, "input")>> :
        T \in ByKeysTemplates, keys \in {<<"a">>, <<"a", "b">>, <<"b", "a">>}}

\* Executor().run(tree, initial_data={...}) and run_async
InitByKeys ==
    /\ \E c \in ByKeysContexts :
          data = [k \in EngKeys |-> IF k = "a" THEN c[1] ELSE IF k = "b" THEN c[2]
                                    ELSE Absent]
    /\ heap = ListObjects
    /\ written = {}
    /\ accessed = {}
    /\ threadSafe = TRUE
    /\ lockOwner = 0
    /\ th = <<>>
    /\ order = <<>>
    /\ last = NoLast
    /\ tree \in ByKeysTrees
    /\ mode \in {"sync", "async"}
    /\ policy \in DefaultPolicy
    /\ ns = [g \in 0..Retries(Root) |-> [n \in Nodes |-> Idle]]
    /\ ex = [pc |-> "start", attempt |-> 0, slept |-> 0, hooks |-> <<>>, raised |-> NoExc,
             result |-> [success |-> FALSE, errors |-> <<>>]]
    /\ NoRegistry

\* the values of a ByArgs parameter: the ints 1 and 2 and the str "1"
ArgValues == {S(1), S(2), Txt("1")}

ValueLists == UNION {[1..n -> ArgValues] : n \in 0..MaxValues}

\* args of no, one or two parameters, in dict order
ArgsDicts ==
    {<<>>}
    \cup {<<[name |-> "x", values |-> v]>> : v \in ValueLists}
    \cup {<<[name |-> "x", values |-> v], [name |-> "y", values |-> w]>> :
             v \in ValueLists, w \in ValueLists}
    \cup {<<[name |-> "y", values |-> v], [name |-> "x", values |-> w]>> :
             v \in ValueLists, w \in ValueLists}

\* the template leaf, without keyword arguments or with x and z bound
ByArgsTemplates ==
    {ModuleAdapter("T", "a", Returns(Arg("x"))),
     WithKwargs(ModuleAdapter("T", "a", Returns(Arg("x"))),
                [q \in {"x", "z"} |-> S(2)])}

\* Parallel([ByArgs(T, args)], name="P") about to flatten its children
InitByArgs ==
    /\ data = [k \in EngKeys |-> Absent]
    /\ heap = <<>>
    /\ written = {}
    /\ accessed = {}
    /\ threadSafe = TRUE
    /\ lockOwner = 0
    /\ th = <<>>
    /\ order = <<>>
    /\ last = NoLast
    /\ tree \in {<<ParallelInit("P", T, args)>> : T \in ByArgsTemplates, args \in ArgsDicts}
    /\ mode = "sync"
    /\ policy \in DefaultPolicy
    /\ ns = <<>>
    /\ ex = [pc |-> "none"]
    /\ NoRegistry

InitExpand == InitByKeys \/ InitByArgs

\* no clone raises, so no future is ever cancelled
NextExpand ==
    \/ \E g \in GenIds, n \in NodeIds :
          \/ LeafOld(g, n) \/ LeafCall(g, n) \/ LeafNew(g, n)
          \/ LeafCmp(g, n) \/ LeafBuild(g, n) \/ LeafStore(g, n)
          \/ ParSubmit(g, n) \/ ParIter(g, n) \/ ParLoopEnd(g, n) \/ ParExit(g, n)
          \/ ParGather(g, n) \/ ParAwaitFailFast(g, n)
          \/ \E c \in NodeIds : PoolStart(g, n, c) \/ ParObserve(g, n, c)
          \/ ByKeysRun(g, n) \/ ByKeysDone(g, n)
    \/ \E p \in NodeIds : ByArgsYield(p) \/ ParallelInitEnd(p)
    \/ ExecBegin \/ ExecNodeDone

SpecExpand == InitExpand /\ [][NextExpand]_vars

-----------------------------------------------------------------------------
(* Properties of the fan-out expansion *)

IsByKeysRun == tree # <<>> /\ tree[Root].kind = "bykeys"

HoldsSequence(k) == IsList(data[k])

\* a configured key is missing or holds something that is not a sequence
FailingKey ==
    /\ IsByKeysRun
    /\ \E i \in 1..Len(tree[Root].keys) : ~HoldsSequence(tree[Root].keys[i])

\* every configured key holds a sequence whose elements are all empty
\* sequences: the flattened item list is empty
EmptyFanOut ==
    /\ IsByKeysRun
    /\ \A i \in 1..Len(tree[Root].keys) :
          /\ HoldsSequence(tree[Root].keys[i])
          /\ \A j \in 1..Len(heap[data[tree[Root].keys[i]].v]) :
                LET e == heap[data[tree[Root].keys[i]].v][j]
                IN  IsList(e) /\ heap[e.v] = <<>>

\* the ByKeys has built its Parallel
Expanded == IsByKeysRun /\ Len(tree) > 1

\* C21: while the flattened item list of a ByKeys run is empty, no step
\* changes a key or a list of the Context or builds a clone, and the run
\* ends with success and without errors.
C21_EmptyFanOutNoEffect ==
    [][EmptyFanOut =>
          /\ data' = data /\ heap' = heap /\ tree' = tree
          /\ RunDone' => (ex'.result.success /\ ex'.result.errors = <<>>)]_vars

\* a run over [[]] (and over [] under a second key) has ended
C21_Witness ==
    /\ EmptyFanOut /\ RunDone /\ ex.result.success
    /\ \E i \in 1..Len(tree[Root].keys) : data[tree[Root].keys[i]] = R(4)
    /\ ns[0][Root].st = "ok"

\* C22: while a configured key of a ByKeys run is missing or holds no
\* sequence, no step changes a key or a list of the Context or builds a
\* clone, and the run ends with exactly one error, an ExecutionError
\* without cause that names the ByKeys step.
C22_PreconditionFailure ==
    [][FailingKey =>
          /\ data' = data /\ heap' = heap /\ tree' = tree
          /\ RunDone' =>
                /\ ~ex'.result.success
                /\ ex'.result.errors = <<ExecutionError(tree[Root].name, NoExc)>>]_vars

\* the run failed on its second key although the first key holds a
\* non-empty list
C22_Witness ==
    /\ FailingKey /\ RunDone /\ ~ex.result.success
    /\ Len(tree[Root].keys) = 2
    /\ HoldsSequence(tree[Root].keys[1])
    /\ heap[data[tree[Root].keys[1]].v] # <<>>
    /\ ~HoldsSequence(tree[Root].keys[2])

\* what a sequence element contributes: its members, or itself
Members(e) == IF IsList(e) THEN heap[e.v] ELSE <<e>>

RECURSIVE Concat(_)
Concat(q) == IF q = <<>> THEN <<>> ELSE Head(q) \o Concat(Tail(q))

\* the items of the Context: the configured keys in order, each sequence in
\* order, one level of nesting flattened
ExpectedItems ==
    Concat([i \in 1..Len(tree[Root].keys) |->
               LET value == heap[data[tree[Root].keys[i]].v]
               IN  Concat([j \in 1..Len(value) |-> Members(value[j])])])

\* the clones of an expanded ByKeys, in the order of its Parallel
ClonesOf(b) == tree[tree[b].children[1]].children

\* C23: once a ByKeys has expanded, its Parallel has exactly one clone per
\* item of the Context (keys in configured order, sequences in order, one
\* level flattened), clone i binds the parameter to item i, and when the
\* ByKeys has returned every clone has run.
C23_OneClonePerItem ==
    /\ (IsByKeysRun /\ ~FailingKey /\ ~EmptyFanOut /\ ns[0][Root].st # "idle"
           /\ ns[0][Root].pc # "collect") => Expanded
    /\ Expanded =>
          /\ Len(tree[Root].children) = 1
          /\ tree[tree[Root].children[1]].kind = "parallel"
          /\ Len(tree) = 2 + Len(ExpectedItems)
          /\ ClonesOf(Root) = [i \in 1..Len(ExpectedItems) |-> 2 + i]
          /\ \A i \in 1..Len(ExpectedItems) :
                /\ tree[2 + i].kind = "leaf"
                /\ tree[2 + i].func_kwargs[tree[Root].input_key_name] = ExpectedItems[i]
          /\ ns[0][Root].st = "ok" =>
                \A i \in 1..Len(ExpectedItems) : ns[0][2 + i].st = "ok"

\* a run over b = [2] and a = [1] in this order, and one over [[[1], 2]],
\* whose first item is a list
C23_Witness ==
    /\ Expanded /\ RunDone /\ ex.result.success
    /\ \/ /\ tree[Root].keys = <<"b", "a">>
          /\ data["a"] = R(2) /\ data["b"] = R(7)
          /\ tree[3].func_kwargs["input"] = S(2) /\ tree[4].func_kwargs["input"] = S(1)
       \/ /\ data["a"] = R(6)
          /\ tree[3].func_kwargs["input"] = R(2)

\* the template of a fan-out that has not finished expanding
HasTemplate == tree # <<>> /\ tree[Root].kind \in {"bykeys", "parallel_init"}

\* the clones a fan-out has produced so far
ClonesSoFar ==
    IF tree[Root].kind = "parallel_init" THEN tree[Root].children
    ELSE IF Expanded THEN ClonesOf(Root)
    ELSE <<>>

\* C24: every step of a fan-out leaves its template as it was (flag and
\* keyword arguments included), and every clone produced so far has the
\* template's out_name and function and its accumulate flag set.
C24_ClonesCarryTemplate ==
    [][(HasTemplate /\ HasTemplate') =>
          /\ tree'[Root].base_node = tree[Root].base_node
          /\ ~tree'[Root].base_node.accumulate_result
          /\ \A i \in 1..Len(ClonesSoFar') :
                LET clone == tree'[ClonesSoFar'[i]]
                IN  /\ clone.out_name = tree[Root].base_node.out_name
                    /\ clone.func = tree[Root].base_node.func
                    /\ clone.accumulate_result]_vars

\* an asynchronous ByKeys run of the template with keyword arguments has
\* produced two clones
C24_Witness ==
    /\ Expanded /\ mode = "async"
    /\ DOMAIN tree[Root].base_node.func_kwargs = {"input", "lang"}
    /\ Len(ClonesOf(Root)) = 2
    /\ RunDone

\* the number of combinations of the parameters after the i-th
RECURSIVE Stride(_, _)
Stride(args, i) ==
    IF i >= Len(args) THEN 1 ELSE Len(args[i + 1].values) * Stride(args, i + 1)

\* the value of the i-th parameter in the k-th combination, the last
\* parameter varying fastest
ValueAt(args, i, k) ==
    args[i].values[(((k - 1) \div Stride(args, i)) % Len(args[i].values)) + 1]

Distinct(q) == \A i, j \in 1..Len(q) : i # j => q[i] # q[j]

\* C25: while Parallel flattens a ByArgs over args, the clones yielded so
\* far are the first combinations of the cartesian product, the last
\* parameter varying fastest; the generator yields until their number is the
\* product of the list lengths; each clone's keyword arguments are the
\* template's overridden by its combination; and when every list holds
\* pairwise distinct values, the names of the clones are pairwise distinct.
C25_ByArgsProduct ==
    (tree # <<>> /\ tree[Root].kind = "parallel_init") =>
        LET args == tree[Root].args
            base == tree[Root].base_node
            names == {args[i].name : i \in 1..Len(args)}
            n == Len(tree[Root].children)
        IN  /\ n <= Stride(args, 0)
            /\ n < Stride(args, 0) => ENABLED ByArgsYield(Root)
            /\ n = Stride(args, 0) => ENABLED ParallelInitEnd(Root)
            /\ \A k \in 1..n :
                  LET clone == tree[tree[Root].children[k]]
                  IN  /\ DOMAIN clone.func_kwargs = DOMAIN base.func_kwargs \cup names
                      /\ \A i \in 1..Len(args) :
                            clone.func_kwargs[args[i].name] = ValueAt(args, i, k)
                      /\ \A q \in DOMAIN base.func_kwargs \ names :
                            clone.func_kwargs[q] = base.func_kwargs[q]
            /\ (\A i \in 1..Len(args) : Distinct(args[i].values)) =>
                  \A k, l \in 1..n :
                      k # l => tree[tree[Root].children[k]].name
                                   # tree[tree[Root].children[l]].name

-----------------------------------------------------------------------------
(* Properties of the leaf *)

\* the function of leaf n raises when it is called in attempt g: it always
\* raises, or it has been called fewer times than it fails
FuncRaises(g, n) ==
    /\ tree[n].func.raises # ""
    /\ \/ tree[n].func.times = 0
       \/ Cardinality({h \in Gens : h < g /\ Called(h, n)}) < tree[n].func.times

\* leaf n of attempt g is about to call its function
AtCall(g, n) == ns[g][n].st = "running" /\ ns[g][n].pc = "call"

\* C26: the step in which a leaf calls a function that raises ends the leaf
\* with an ExecutionError whose node_name is the leaf's name and whose cause
\* is the exception raised; in that step the Context changes by what the
\* function wrote before raising and by nothing else, so the leaf's out_name
\* is not written; and a leaf fails in no other way.
C26_LeafWrapsException ==
    [][\A g \in Gens, n \in LeafNodes :
          (AtCall(g, n) /\ ns'[g][n] # ns[g][n]) =>
              /\ FuncRaises(g, n) <=> ns'[g][n].st = "failed"
              /\ FuncRaises(g, n) =>
                    /\ ns'[g][n].err =
                          <<[type |-> "ExecutionError", node_name |-> tree[n].name,
                             count |-> 0],
                            [type |-> tree[n].func.raises, node_name |-> "", count |-> 0]>>
                    /\ data' = IF tree[n].func.wkey = "" THEN data
                               ELSE [data EXCEPT ![tree[n].func.wkey] = tree[n].func.wval]
                    /\ heap' = heap]_vars

\* a leaf with out_name a has failed after its function wrote b: b holds
\* the value, a is missing
C26_Witness ==
    \E g \in Gens, n \in LeafNodes :
        /\ ns[g][n].st = "failed"
        /\ tree[n].out_name = "a" /\ tree[n].func.wkey = "b"
        /\ data["b"] = tree[n].func.wval
        /\ data["a"] = Absent
        /\ Len(ns[g][n].err) = 2

-----------------------------------------------------------------------------
(* Properties of the errors a run reports *)

\* the error e has a frame for the failure of leaf c: c's name as the
\* node_name of an ExecutionError, and the exception c's function raised
CarriesFailureOf(e, c) ==
    /\ \E i \in 1..Len(e) : e[i].type = "ExecutionError" /\ e[i].node_name = tree[c].name
    /\ \E i \in 1..Len(e) : e[i].type = tree[c].func.raises

\* C27: the error a collect-mode Parallel raises carries, for each of its
\* failed children, the child's name and the child's cause, and so does the
\* error list of the result the Executor returns.
C27_AggregateKeepsCauses ==
    /\ \A g \in Gens, p \in ParallelNodes :
          (~tree[p].fail_fast /\ ns[g][p].st = "failed") =>
              \A c \in Children(p) :
                  ns[g][c].st = "failed" => CarriesFailureOf(ns[g][p].err, c)
    /\ (RunDone /\ tree[Root].kind = "parallel" /\ ~tree[Root].fail_fast) =>
          \A c \in Children(Root) :
              ns[ex.attempt][c].st = "failed" =>
                  \E i \in 1..Len(ex.result.errors) :
                      CarriesFailureOf(ex.result.errors[i], c)

\* exactly one leaf of the tree has a function that raises
TheRaisingLeaf == CHOOSE n \in LeafNodes : tree[n].func.raises # ""
OneLeafRaises == Cardinality({n \in LeafNodes : tree[n].func.raises # ""}) = 1

\* C28: run and run_async report the same outcome.  For a fail-fast
\* Parallel of leaves with distinct keys of which at most one raises, the
\* outcome of run is the same under every interleaving: success and every
\* key written when no leaf raises, else failure with one error whose
\* node_name is the name of the raising leaf.  Every run, on either path,
\* ends with this outcome.
C28_SameOutcomeOnBothPaths ==
    (RunDone /\ tree[Root].kind = "parallel" /\ tree[Root].fail_fast) =>
        /\ NoLeafRaises =>
              /\ ex.result.success /\ ex.result.errors = <<>>
              /\ \A n \in LeafNodes : data[LeafKey(n)] = LeafValue(n)
        /\ OneLeafRaises =>
              /\ ~ex.result.success
              /\ Len(ex.result.errors) = 1
              /\ ex.result.errors[1][1].node_name = tree[TheRaisingLeaf].name

-----------------------------------------------------------------------------
(* examples/simple_example.py: Serial([Parallel([PathA, PathB]), Combine]) *)

MaxX == 5            \* the initial value of x ranges over 0..MaxX

ExampleKeys == {"x", "result_a", "result_b", "final_result"}

\* add_ten, multiply_two and combine (13-43) write their result to out_name
\* and return None
ExampleTree ==
    <<Serial("SimplePipeline", <<2, 5>>, FALSE),
      Parallel("ParallelOps", <<3, 4>>, 0, TRUE),
      ModuleAdapter("PathA", "result_a", WritesTo("result_a", Plus("x", 10))),
      ModuleAdapter("PathB", "result_b", WritesTo("result_b", Times("x", 2))),
      ModuleAdapter("Combine", "final_result",
                    WritesTo("final_result", Sum("result_a", "result_b")))>>

\* Executor().run(pipeline, initial_data={"x": x}) (60-75), and run_async
InitExample ==
    /\ \E x \in 0..MaxX :
          data = [k \in ExampleKeys |-> IF k = "x" THEN S(x) ELSE Absent]
    /\ heap = <<>>
    /\ written = {}
    /\ accessed = {}
    /\ threadSafe = TRUE
    /\ lockOwner = 0
    /\ th = <<>>
    /\ order = <<>>
    /\ last = NoLast
    /\ tree = ExampleTree
    /\ mode \in {"sync", "async"}
    /\ policy \in DefaultPolicy
    /\ ns = [g \in 0..Retries(Root) |-> [n \in Nodes |-> Idle]]
    /\ ex = [pc |-> "start", attempt |-> 0, slept |-> 0, hooks |-> <<>>, raised |-> NoExc,
             result |-> [success |-> FALSE, errors |-> <<>>]]
    /\ NoRegistry

NextExample ==
    \/ \E g \in GenIds, n \in NodeIds :
          \/ LeafCall(g, n)
          \/ SerialStart(g, n) \/ SerialChildDone(g, n) \/ SerialEnd(g, n)
          \/ ParSubmit(g, n) \/ ParIter(g, n) \/ ParLoopEnd(g, n) \/ ParExit(g, n)
          \/ ParGather(g, n) \/ ParAwaitFailFast(g, n)
          \/ \E c \in NodeIds : PoolStart(g, n, c) \/ ParObserve(g, n, c)
    \/ ExecBegin \/ ExecNodeDone

SpecExample == InitExample /\ [][NextExample]_vars

\* C29: for every initial x and every interleaving of PathA and PathB, the
\* run of the example never gets stuck, Combine does not start before
\* result_a and result_b are written, and the run returns success with
\* result_a = x + 10, result_b = 2x and final_result = 3x + 10.
C29_ExampleComputesFinal ==
    /\ ~RunDone => ENABLED NextExample
    /\ ns[0][5].st # "idle" =>
          /\ data["result_a"] = S(data["x"].v + 10)
          /\ data["result_b"] = S(data["x"].v * 2)
    /\ RunDone =>
          /\ ex.result.success /\ ex.result.errors = <<>>
          /\ data["final_result"] = S(3 * data["x"].v + 10)

\* x = 5 gives 25, on the path that starts PathB before PathA has written
C29_Witness ==
    /\ RunDone /\ ex.result.success
    /\ data["x"] = S(5) /\ data["final_result"] = S(25)
    /\ data["result_a"] = S(15) /\ data["result_b"] = S(10)

-----------------------------------------------------------------------------
(* TaskRegistry, registry/task_registry.py 43-272                          *)

TaskIds == {"t1", "t2"}
Versions == {"0.9.0", "0.10.0", "1.0.0"}
Selectors == Versions \cup {"latest", "stable"}
RegNodes == {"n1"}

NoVersion == ""

\* version_parser.parse(v).release
Release(v) ==
    CASE v = "0.9.0" -> <<0, 9, 0>>
      [] v = "0.10.0" -> <<0, 10, 0>>
      [] v = "1.0.0" -> <<1, 0, 0>>

\* a < b for release tuples of equal length, from the i-th component on
RECURSIVE TupleLess(_, _, _)
TupleLess(a, b, i) ==
    IF i > Len(a) THEN FALSE
    ELSE IF a[i] # b[i] THEN a[i] < b[i]
    ELSE TupleLess(a, b, i + 1)

\* version_parser.parse(v) < version_parser.parse(w)
VersionLess(v, w) == TupleLess(Release(v), Release(w), 1)

\* TaskSpec(task_id=t, version=v, node=node), 21-40
TaskSpec(t, v, node) == [task_id |-> t, version |-> v, node |-> node]
NoSpec == TaskSpec("", NoVersion, "")

\* a dict of versions is the sequence of its TaskSpecs in insertion order
VersionKeys(versions) == {versions[i].version : i \in 1..Len(versions)}

Lookup(versions, v) ==
    versions[CHOOSE i \in 1..Len(versions) : versions[i].version = v]

\* versions[v] = spec: an existing key keeps its place
DictSet(versions, v, spec) ==
    IF v \in VersionKeys(versions)
    THEN [i \in 1..Len(versions) |-> IF versions[i].version = v THEN spec ELSE versions[i]]
    ELSE Append(versions, spec)

\* del versions[v]
DictDel(versions, v) ==
    LET keep(e) == e.version # v IN SelectSeq(versions, keep)

\* d[k] = val and del d[k] for a dict keyed by task_id
With(d, k, val) == [x \in DOMAIN d \cup {k} |-> IF x = k THEN val ELSE d[x]]
Without(d, k) == [x \in DOMAIN d \ {k} |-> d[x]]

\* a max that returns the key registered last
LatestByRegistration(versions) == versions[Len(versions)].version

\* 158: max(versions.keys(), key=parse): the first of the greatest keys
Latest(versions) ==
    versions[CHOOSE i \in 1..Len(versions) :
                /\ \A j \in 1..(i - 1) : VersionLess(versions[j].version, versions[i].version)
                /\ \A j \in (i + 1)..Len(versions) :
                      ~VersionLess(versions[i].version, versions[j].version)].version

\* the version last marked stable, unless it is not registered any more
StillMarked(m, tsk) ==
    [t \in TaskIds |->
        IF t \in DOMAIN tsk /\ m[t] \in VersionKeys(tsk[t]) THEN m[t] ELSE NoVersion]

Raised(op, error) == [op |-> op, task_id |-> "", version |-> "", error |-> error,
                      spec |-> NoSpec]
Returned(op) == Raised(op, "")

regFrame == <<ctxVars, th, order, last, engVars>>

\* register(task_id, version, node, overwrite=..., mark_stable=...), 66-135
Register(t, v, node, overwrite, mark_stable) ==
    /\ IF t \in DOMAIN tasks /\ v \in VersionKeys(tasks[t]) /\ ~overwrite
       THEN /\ reply' = Raised("register", "VersionConflictError")
            /\ UNCHANGED <<tasks, stable_versions, marked>>
       ELSE /\ tasks' = With(tasks, t,
                             DictSet(IF t \in DOMAIN tasks THEN tasks[t] ELSE <<>>,
                                     v, TaskSpec(t, v, node)))
            /\ stable_versions' = IF mark_stable THEN With(stable_versions, t, v)
                                  ELSE stable_versions
            /\ marked' = IF mark_stable THEN [marked EXCEPT ![t] = v] ELSE marked
            /\ reply' = Returned("register")
    /\ UNCHANGED regFrame

\* mark_stable(task_id, version), 220-235
MarkStable(t, v) ==
    /\ IF t \notin DOMAIN tasks \/ v \notin VersionKeys(tasks[t])
       THEN /\ reply' = Raised("mark_stable", "TaskNotFoundError")
            /\ UNCHANGED <<stable_versions, marked>>
       ELSE /\ stable_versions' = With(stable_versions, t, v)
            /\ marked' = [marked EXCEPT ![t] = v]
            /\ reply' = Returned("mark_stable")
    /\ UNCHANGED <<tasks, regFrame>>

\* a test that never finds the dict of versions empty
NeverEmpty(versions) == FALSE

\* 264: not self._tasks[task_id]
NoneLeft(versions) == versions = <<>>

\* unregister(task_id, version), 237-272; version NoVersion stands for None
Unregister(t, v) ==
    /\ IF t \notin DOMAIN tasks
       THEN /\ reply' = Raised("unregister", "TaskNotFoundError")
            /\ UNCHANGED <<tasks, stable_versions>>
       ELSE IF v = NoVersion
       THEN /\ tasks' = Without(tasks, t)
            /\ stable_versions' = Without(stable_versions, t)
            /\ reply' = Returned("unregister")
       ELSE IF v \notin VersionKeys(tasks[t])
       THEN /\ reply' = Raised("unregister", "TaskNotFoundError")
            /\ UNCHANGED <<tasks, stable_versions>>
       ELSE /\ reply' = Returned("unregister")
            /\ IF NoneLeft(DictDel(tasks[t], v))
               THEN /\ tasks' = Without(tasks, t)
                    /\ stable_versions' = Without(stable_versions, t)
               ELSE /\ tasks' = [tasks EXCEPT ![t] = DictDel(@, v)]
                    /\ stable_versions' =
                          IF t \in DOMAIN stable_versions /\ stable_versions[t] = v
                          THEN Without(stable_versions, t)
                          ELSE stable_versions
    /\ marked' = StillMarked(marked, tasks')
    /\ UNCHANGED regFrame

\* get(task_id, version), 137-178: the TaskSpec returned or the exception
GetReply(t, version) ==
    LET got(spec) == [op |-> "get", task_id |-> t, version |-> version, error |-> "",
                      spec |-> spec]
        raised(error) == [op |-> "get", task_id |-> t, version |-> version,
                          error |-> error, spec |-> NoSpec]
    IN  IF t \notin DOMAIN tasks THEN raised("TaskNotFoundError")
        ELSE IF version = "latest"
        THEN (IF tasks[t] = <<>> THEN raised("ValueError")
              ELSE got(Lookup(tasks[t], Latest(tasks[t]))))
        ELSE IF version = "stable"
        THEN (IF t \notin DOMAIN stable_versions THEN raised("TaskNotFoundError")
              ELSE IF stable_versions[t] \notin VersionKeys(tasks[t]) THEN raised("KeyError")
              ELSE got(Lookup(tasks[t], stable_versions[t])))
        ELSE IF version \notin VersionKeys(tasks[t]) THEN raised("TaskNotFoundError")
        ELSE got(Lookup(tasks[t], version))

Get(t, version) ==
    /\ reply' = GetReply(t, version)
    /\ UNCHANGED <<tasks, stable_versions, marked, regFrame>>

\* TaskRegistry(), 60-64
InitRegistry ==
    /\ data = [k \in EngKeys |-> Absent]
    /\ heap = <<>>
    /\ written = {}
    /\ accessed = {}
    /\ threadSafe = TRUE
    /\ lockOwner = 0
    /\ th = <<>>
    /\ order = <<>>
    /\ last = NoLast
    /\ NoEngine
    /\ tasks = [t \in {} |-> <<>>]
    /\ stable_versions = [t \in {} |-> NoVersion]
    /\ marked = [t \in TaskIds |-> NoVersion]
    /\ reply = Returned("init")

NextRegistry ==
    \E t \in TaskIds :
        \/ \E v \in Versions, node \in RegNodes, overwrite \in BOOLEAN, mark \in BOOLEAN :
              Register(t, v, node, overwrite, mark)
        \/ \E v \in Versions : MarkStable(t, v)
        \/ \E v \in Versions \cup {NoVersion} : Unregister(t, v)
        \/ \E version \in Selectors : Get(t, version)

SpecRegistry == InitRegistry /\ [][NextRegistry]_vars

\* the versions of task t that are registered
Registered(t) == IF t \in DOMAIN tasks THEN VersionKeys(tasks[t]) ELSE {}

\* a version as one number: major, minor and patch weighted
SemverRank(v) == Release(v)[1] * 10000 + Release(v)[2] * 100 + Release(v)[3]

\* C30: whatever was registered, marked and unregistered before, a get
\* returns or raises as follows.  "latest": the registered TaskSpec of the
\* task whose version has the highest semantic-version rank.  "stable": the
\* TaskSpec of the version most recently marked stable, or TaskNotFoundError
\* when none is marked.  A version v: the TaskSpec registered under v, or
\* TaskNotFoundError.  A task without registered version: TaskNotFoundError.
C30_GetSelectsVersion ==
    reply.op = "get" =>
        LET t == reply.task_id
            expected ==
                IF Registered(t) = {} THEN NoVersion
                ELSE IF reply.version = "latest"
                THEN CHOOSE v \in Registered(t) :
                         \A w \in Registered(t) : SemverRank(w) <= SemverRank(v)
                ELSE IF reply.version = "stable" THEN marked[t]
                ELSE IF reply.version \in Registered(t) THEN reply.version
                ELSE NoVersion
        IN  IF expected = NoVersion
            THEN reply.error = "TaskNotFoundError" /\ reply.spec = NoSpec
            ELSE /\ reply.error = ""
                 /\ reply.spec.task_id = t
                 /\ reply.spec.version = expected
                 /\ reply.spec = Lookup(tasks[t], expected)

\* "latest" returned 0.10.0 although 0.9.0 was registered after it and
\* 1.0.0 had been unregistered
C30_Witness ==
    /\ reply.op = "get" /\ reply.version = "latest" /\ reply.error = ""
    /\ reply.spec.version = "0.10.0"
    /\ Len(tasks[reply.task_id]) = 2
    /\ tasks[reply.task_id][2].version = "0.9.0"
    /\ marked[reply.task_id] = "0.9.0"

-----------------------------------------------------------------------------
(* One leaf run alone: Executor().run(leaf, initial_data={...})             *)

\* list objects of the initial Context and of the function: [], [1], [1, 2]
\* and a second object that equals [1]
LeafLists == << <<>>, <<S(1)>>, <<S(1), S(2)>>, <<S(1)>> >>

\* what the output key a holds before the call; key b is missing or holds 1
LeafContexts ==
    {<<x, y>> : x \in {Absent, Nil, S(1), S(2), R(1), R(2), R(3)}, y \in {Absent, S(1)}}

\* the functions: they write nothing, or None, 1, 2 or the second [1] to the
\* output key or to key b, then return None, 1 or the second [1], or raise
LeafFuncs ==
    {Func(wkey, wval, ret, raises) :
        wkey \in {"", "a", "b"}, wval \in {Nil, S(1), S(2), R(4)},
        ret \in {Nil, S(1), R(4)}, raises \in {"", "ValueError"}}

\* the leaf with or without out_name "a", and its clone in accumulate mode
LeafTrees ==
    {<<ModuleAdapter("A", out, f)>> : out \in {"", "a"}, f \in LeafFuncs}
    \cup {<<ByArgsClone(ModuleAdapter("A", out, f), <<"x">>, <<S(1)>>)>> :
             out \in {"", "a"}, f \in LeafFuncs}

\* the Context the run started from, as the history variable `last` keeps it
PreData == [k \in EngKeys |-> IF k = last.key THEN last.before ELSE last.others[k]]

\* Executor().run(tree, initial_data={...}) and run_async
InitLeaf ==
    /\ \E c \in LeafContexts :
          data = [k \in EngKeys |-> IF k = "a" THEN c[1] ELSE IF k = "b" THEN c[2]
                                    ELSE Absent]
    /\ heap = LeafLists
    /\ written = {}
    /\ accessed = {}
    /\ threadSafe = TRUE
    /\ lockOwner = 0
    /\ th = <<>>
    /\ order = <<>>
    /\ last = [key |-> "a", val |-> Nil, before |-> data["a"],
               others |-> [o \in EngKeys \ {"a"} |-> data[o]]]
    /\ tree \in LeafTrees
    /\ mode \in {"sync", "async"}
    /\ policy \in DefaultPolicy
    /\ ns = [g \in 0..Retries(Root) |-> [n \in Nodes |-> Idle]]
    /\ ex = [pc |-> "start", attempt |-> 0, slept |-> 0, hooks |-> <<>>, raised |-> NoExc,
             result |-> [success |-> FALSE, errors |-> <<>>]]
    /\ NoRegistry

NextLeaf ==
    \/ \E g \in GenIds, n \in NodeIds :
          \/ LeafOld(g, n) \/ LeafCall(g, n) \/ LeafNew(g, n)
          \/ LeafCmp(g, n) \/ LeafBuild(g, n) \/ LeafStore(g, n)
    \/ ExecBegin \/ ExecNodeDone

SpecLeaf == InitLeaf /\ [][NextLeaf]_vars

-----------------------------------------------------------------------------
(* Properties of the leaf run alone *)

\* accumulate mode is in force (module_adapter.py 96, 103)
Accumulates(n) == tree[n].accumulate_result /\ tree[n].out_name # ""

\* what the function of leaf n left in the Context it was called on
AfterFunc(d, n) ==
    IF tree[n].func.wkey # ""
    THEN [d EXCEPT ![tree[n].func.wkey] = ArgValue(n, tree[n].func.wval)]
    ELSE d

\* the value the function returned, None when it raised
FuncResult(n) == IF tree[n].func.raises # "" THEN Nil ELSE ArgValue(n, tree[n].func.ret)

\* the keys the function wrote
FuncWrites(n) == IF tree[n].func.wkey # "" THEN {tree[n].func.wkey} ELSE {}

Accumulated(k, v) ==
    LET a == AccumulateImpl(PreData, LeafLists, k, v)
    IN  Norm(a.d[k], a.h)

\* C32: an accumulate-mode leaf run alone, whose function returns, leaves the
\* output key as Context.accumulate(key, v) leaves it from the state before
\* the call, v being the value the function wrote to the key when it differs
\* from the value before the call and else the function's return value when
\* not None; with neither, the leaf changes nothing.  No other key changes.
C32_AccumulateLeaf ==
    (RunDone /\ Accumulates(Root) /\ tree[Root].func.raises = "") =>
        LET out == tree[Root].out_name
            f == AfterFunc(PreData, Root)
            old == DataGet(PreData, out)
            new == DataGet(f, out)
            r == FuncResult(Root)
        IN  /\ IF PyNotEqual(new, old, LeafLists)
               THEN Norm(data[out], heap) = Accumulated(out, new)
               ELSE IF r # Nil
               THEN Norm(data[out], heap) = Accumulated(out, r)
               ELSE data = f /\ heap = LeafLists
            /\ \A k \in EngKeys \ {out} : Norm(data[k], heap) = Norm(f[k], LeafLists)

\* the key held 1, the function wrote 2 to it and returned 1: the key holds
\* [1, 2], the value returned is dropped
C32_Witness ==
    /\ RunDone /\ ex.result.success /\ Accumulates(Root)
    /\ last.before = S(1)
    /\ tree[Root].func = Func("a", S(2), S(1), "")
    /\ Norm(data["a"], heap) = L(<<S(1), S(2)>>)

-----------------------------------------------------------------------------
(* The retry loop of the Executor on a step that fails several times        *)

MaxFailures == 2     \* the step fails up to MaxFailures times, retries likewise

AttemptIds == 0..MaxFailures

\* a leaf with retries -1..MaxFailures whose function returns 1, raises
\* ValueError every time (k = 0), or the first k times only
BackoffTrees ==
    {<<WithRetries(ModuleAdapter("A", "a", f), r)>> :
        f \in {Returns(S(1))}
                \cup {FailsFirst(k, Func("", Nil, S(1), "ValueError")) : k \in 0..MaxFailures},
        r \in (0 - 1)..MaxFailures}

InitBackoff == InitEngine(BackoffTrees, DriverPolicies)

NextBackoff ==
    \/ \E g \in AttemptIds, n \in NodeIds : LeafCall(g, n) \/ LeafStore(g, n)
    \/ ExecBegin \/ ExecNodeDone \/ ExecRetry

SpecBackoff == InitBackoff /\ [][NextBackoff]_vars

\* 1 + 2 + ... + k
Triangle(k) == (k * (k + 1)) \div 2

\* C33: the Executor sleeps retry_backoff x n between the failed attempt
\* number n (from 1) and the attempt that follows it, and nowhere else: at
\* any moment the time slept is retry_backoff x k(k+1)/2 for the k retries
\* made so far, nothing before the first attempt and nothing after the last.
C33_BackoffSchedule ==
    [][/\ ex'.attempt \in {ex.attempt, ex.attempt + 1}
       /\ ex'.slept - ex.slept =
              (IF ex'.attempt = ex.attempt THEN 0 ELSE BackoffUnit * ex'.attempt)
       /\ ex.slept = BackoffUnit * Triangle(ex.attempt)
       /\ ex'.slept = BackoffUnit * Triangle(ex'.attempt)]_vars

\* the step failed twice, was retried twice and succeeded: 1 + 2 units slept
C33_Witness ==
    /\ RunDone /\ ex.result.success
    /\ tree[Root].func.times = 2
    /\ ns[0][Root].st = "failed" /\ ns[1][Root].st = "failed" /\ ns[2][Root].st = "ok"
    /\ ex.attempt = 2
    /\ ex.slept = 3 * BackoffUnit

-----------------------------------------------------------------------------
(* A Parallel group inside a Serial: Serial([Parallel([A, B]), D])          *)

\* the group has one worker or one per child and is fail-fast or not; A and
\* B write the keys a and b or fail; D writes key c after the group
NestedTrees ==
    {<<Serial("S", <<2, 5>>, coe), Parallel("P", <<3, 4>>, mw, ff), A, B,
       ModuleAdapter("D", "c", Returns(S(1)))>> :
        coe \in BOOLEAN, mw \in 0..1, ff \in BOOLEAN,
        A \in LeafKinds("A", "a", S(1)),
        B \in LeafKinds("B", "b", S(2))}

InitNested == InitEngine(NestedTrees, DefaultPolicy)

NextNested ==
    \/ \E g \in GenIds, n \in NodeIds :
          \/ LeafCall(g, n) \/ LeafStore(g, n)
          \/ SerialStart(g, n) \/ SerialChildDone(g, n) \/ SerialEnd(g, n)
          \/ ParSubmit(g, n) \/ ParIter(g, n) \/ ParLoopEnd(g, n)
          \/ ParCancel(g, n) \/ ParExit(g, n)
          \/ ParGather(g, n) \/ ParAwaitFailFast(g, n) \/ ParAwaitCollect(g, n)
          \/ \E c \in NodeIds : PoolStart(g, n, c) \/ ParObserve(g, n, c)
    \/ ExecBegin \/ ExecNodeDone

SpecNested == InitNested /\ [][NextNested]_vars

\* the group p of invocation g has returned or raised (ns is the state of
\* the nodes)
Reported(nsv, g, p) == nsv[g][p].st \in {"ok", "failed"}

\* no child of p is executing or waiting to be executed
Quiescent(nsv, g, p) ==
    \A c \in Children(p) : nsv[g][c].st \in {"ok", "failed", "cancelled"}

\* C34: on the sync path, when a Parallel group has returned or raised, in
\* fail-fast and in collect mode, none of its children is executing or
\* pending and none changes state afterwards, so the Context writes of its
\* children all precede its report and the start of the next child of an
\* enclosing Serial.
C34_GroupQuiescentOnReport ==
    [][\A g \in GenIds, p \in NodeIds :
          (g \in Gens /\ p \in ParallelNodes /\ mode = "sync") =>
              /\ Reported(ns', g, p) => Quiescent(ns', g, p)
              /\ Reported(ns, g, p) =>
                    /\ \A c \in Children(p) : ns'[g][c] = ns[g][c]
                    /\ \A c \in Children(p) :
                          LeafKey(c) # "" => data'[LeafKey(c)] = data[LeafKey(c)]]_vars

\* a fail-fast group with one worker raised after A wrote its key and
\* failed and B was started all the same and wrote b; D is running
C34_Witness ==
    /\ mode = "sync" /\ tree[2].fail_fast /\ tree[2].max_workers = 1
    /\ tree[Root].continue_on_error
    /\ ns[0][2].st = "failed"
    /\ ns[0][3].st = "failed" /\ data["a"] = S(1)
    /\ ns[0][4].st = "ok" /\ data["b"] = S(2)
    /\ ns[0][5].st = "running"

-----------------------------------------------------------------------------
(* Properties of the error mode *)

\* ErrorMode.FAIL_FAST and ErrorMode.COLLECT (executor.py 13-16)
ErrorModes == {"fail_fast", "collect"}

-----------------------------------------------------------------------------
(* Termination of a run                                                     *)

\* Serial([Parallel([A, B]), D]) with retries on the root, A and B either
\* returning their value or raising
TerminateTrees ==
    {[t EXCEPT ![Root] = WithRetries(t[Root], r)] :
        t \in {u \in NestedTrees : u[3].func.wkey = "" /\ u[4].func.wkey = ""},
        r \in 0..MaxRetries}

\* these trees under the policies without hooks, and the leaves of the
\* retry scenario under every hook combination

InitTerminate == InitEngine(TerminateTrees, Policies) \/ InitBackoff

NextTerminate ==
    \/ \E g \in AttemptIds, n \in NodeIds :
          \/ LeafCall(g, n) \/ LeafStore(g, n)
          \/ SerialStart(g, n) \/ SerialChildDone(g, n) \/ SerialEnd(g, n)
          \/ ParSubmit(g, n) \/ ParIter(g, n) \/ ParLoopEnd(g, n)
          \/ ParCancel(g, n) \/ ParExit(g, n)
          \/ ParGather(g, n) \/ ParAwaitFailFast(g, n) \/ ParAwaitCollect(g, n)
          \/ \E c \in NodeIds : PoolStart(g, n, c) \/ ParObserve(g, n, c)
    \/ ExecBegin \/ ExecNodeDone \/ ExecRetry

\* the threads of the pools and of the event loop are scheduled, every call
\* of a function or a hook returns or raises, and time.sleep returns: a step
\* that can be taken is eventually taken
SpecTerminate == InitTerminate /\ [][NextTerminate]_vars /\ WF_vars(NextTerminate)

\* Executor.run has returned its result, or a hook's exception has left it
Terminated == ex.pc \in {"done", "raised"}

-----------------------------------------------------------------------------
(* The hooks of the retry loop                                              *)

\* the policies of the Executor scenario without timeout, the after_node
\* hook being also one that rejects a successful step
HookPolicies ==
    [error_mode : {"fail_fast", "collect"}, retry_on : {{"Exception"}, {"ValueError"}},
     before_node : HookKinds, after_node : HookKinds \cup {"rejects"},
     on_error : HookKinds, timeout : {0}]

InitHooks == InitEngine(DriverTrees, HookPolicies)

NextHooks ==
    \/ \E g \in GenIds, n \in NodeIds :
          \/ LeafCall(g, n) \/ LeafStore(g, n)
          \/ SerialStart(g, n) \/ SerialChildDone(g, n) \/ SerialEnd(g, n)
    \/ ExecBegin \/ ExecNodeDone \/ ExecRetry

SpecHooks == InitHooks /\ [][NextHooks]_vars

\* the record of one call of a hook, nothing when the hook is not configured
Entry(hook, failed) ==
    IF policy[hook] = "none" THEN <<>>
    ELSE <<[hook |-> hook, node |-> Root, failed |-> failed]>>

\* the calls made for a failed attempt: on_error, then after_node with the
\* error (an on_error hook that raises ends the run before after_node)
ErrorCalls ==
    Entry("on_error", TRUE)
        \o (IF HookRaises("on_error") THEN <<>> ELSE Entry("after_node", TRUE))

\* the outcome of attempt g has been handled
Handled(g) == ex.attempt > g \/ ex.pc \in {"sleep", "done", "raised"}

\* the before_node hook failed attempt g, or the after_node hook did after
\* the step succeeded
FailedByHook(g) ==
    \/ HookRaises("before_node")
    \/ ns[g][Root].st = "ok" /\ AfterRaisesOnSuccess

\* the hook calls of attempt g, in order
CallsOf(g) ==
    Entry("before_node", FALSE)
        \o (IF ~Handled(g) THEN <<>>
            ELSE IF HookRaises("before_node") THEN ErrorCalls
            ELSE IF ns[g][Root].st = "ok"
            THEN Entry("after_node", FALSE)
                     \o (IF AfterRaisesOnSuccess THEN ErrorCalls ELSE <<>>)
            ELSE ErrorCalls)

\* the hook calls of the attempts 0..g, in order
RECURSIVE CallsUpTo(_)
CallsUpTo(g) == IF g < 0 THEN <<>> ELSE CallsUpTo(g - 1) \o CallsOf(g)

\* C37: in every attempt the before_node hook is called once and before the
\* step runs; after a step that succeeded after_node is called once without
\* error; after one that failed on_error is called and then after_node once
\* with the error.  A before_node hook that raises, or an after_node hook
\* that raises after a step that succeeded, fails the attempt like a failure
\* of the step: on_error and after_node are called with the error, and the
\* attempt is retried iff budget is left and the exception matches retry_on,
\* else the run returns the failure.
C37_HookOrder ==
    /\ ex.hooks = IF ex.pc = "start" THEN <<>> ELSE CallsUpTo(ex.attempt)
    /\ \A g \in Gens :
          /\ (HookRaises("before_node") /\ g <= ex.attempt) => ns[g][Root].st = "idle"
          /\ (/\ g <= ex.attempt /\ Handled(g) /\ FailedByHook(g)
              /\ ~HookRaises("on_error") /\ ~HookRaises("after_node")) =>
                 /\ Retried(g) <=> (g < Retries(Root) /\ Matches(HookExc))
                 /\ ~Retried(g) =>
                       /\ RunDone
                       /\ ex.result = [success |-> FALSE,
                                       errors |-> <<ExecutionError(tree[Root].name, HookExc)>>]

\* the after_node hook rejected the step that succeeded in the first
\* attempt; on_error and after_node were called with the error and the
\* step was run again
C37_Witness ==
    /\ policy.after_node = "rejects" /\ policy.before_node = "ok" /\ policy.on_error = "ok"
    /\ ex.attempt = 1 /\ ex.pc = "run"
    /\ ns[0][Root].st = "ok" /\ ns[1][Root].st = "ok"
    /\ Len(ex.hooks) = 5
    /\ ex.hooks[2] = [hook |-> "after_node", node |-> Root, failed |-> FALSE]
    /\ ex.hooks[3] = [hook |-> "on_error", node |-> Root, failed |-> TRUE]
    /\ ex.hooks[4] = [hook |-> "after_node", node |-> Root, failed |-> TRUE]
    /\ ex.hooks[5].hook = "before_node"

-----------------------------------------------------------------------------
(* Properties of the TaskRegistry *)

\* every task has a version, and every stable marker points to a version
\* that is registered (tsk and stable are _tasks and _stable_versions)
WellFormed(tsk, stable) ==
    /\ \A t \in DOMAIN tsk : tsk[t] # <<>>
    /\ \A t \in DOMAIN stable :
          /\ t \in DOMAIN tsk
          /\ stable[t] \in VersionKeys(tsk[t])

\* C38: after any sequence of register, mark_stable and unregister calls
\* (of one version or of all), failing calls included, every task of the
\* registry has at least one version and every stable marker belongs to a
\* registered task and names one of its registered versions; a call that
\* raises VersionConflictError or TaskNotFoundError changes nothing.
C38_RegistryWellFormed ==
    [][/\ WellFormed(tasks, stable_versions)
       /\ WellFormed(tasks', stable_versions')
       /\ reply'.error \in {"VersionConflictError", "TaskNotFoundError"} =>
             /\ tasks' = tasks
             /\ stable_versions' = stable_versions]_vars

\* mark_stable of a version that is not registered has just failed on a
\* registry in which t1 has two versions, the second of them stable
C38_Witness ==
    /\ reply.op = "mark_stable" /\ reply.error = "TaskNotFoundError"
    /\ DOMAIN tasks = {"t1"} /\ Len(tasks["t1"]) = 2
    /\ DOMAIN stable_versions = {"t1"}
    /\ stable_versions["t1"] = tasks["t1"][2].version
====
